---- MODULE Spec2Model ----
(***************************************************************************)
(* A model of the phelps backend: the notes service actor                  *)
(* (backend/src/notes_service.rs), the build coordinator                   *)
(* (backend/src/build_service.rs), the readiness event                     *)
(* (backend/src/event.rs) and the websocket subscriber handler             *)
(* (backend/src/router.rs).                                                *)
(***************************************************************************)
EXTENDS Integers, Sequences, FiniteSets, TLC

(***************************************************************************)
(* Bounds of the model.                                                    *)
(***************************************************************************)
\* notes in one compile output
MaxNotes == 2
\* link targets of one note
MaxLinks == 1
\* requests the environment posts to the notes service (SpecService, SpecSub)
MaxReq == 3
\* watcher events the coordinator handles after startup (Spec)
MaxEvents == 1
\* room of the request channel in the model (the program's is BUFFER_SIZE)
QueueCap == 2
\* files one compile reads besides its main file
MaxDeps == 1
\* notes in the output of one compile of the coordinator (Spec)
MaxBuildNotes == 1
\* the mutations posted while websocket connections are followed
MaxSubReq == 2
\* the reads and the accesses of a cell that are counted after a reset
MaxCount == 2
\* room of the broadcast channel where lagging is followed (SpecLag)
BroadcastCap == 1
\* the mutations posted where lagging is followed (SpecLag)
MaxLagReq == 3

(***************************************************************************)
(* Program constants.                                                      *)
(***************************************************************************)
BUFFER_SIZE == 64

(***************************************************************************)
(* The universe of values.                                                 *)
(***************************************************************************)
\* note ids
Uuids == {"u1", "u2"}
\* heading texts
Titles == {"A"}
\* source roots: project-local *.typ files under the notes subdirectory
NoteFiles == {"a.typ", "b.typ"}
\* a project-local file that is no source root, and a file of a package
LocalFiles == NoteFiles \cup {"tmpl"}
PackageFiles == {"pkg"}
FileIds == LocalFiles \cup PackageFiles
\* websocket connections
Subscribers == {"s1", "s2"}

package(id) == IF id \in PackageFiles THEN "preview" ELSE "none"

RECURSIVE SeqsUpTo(_, _)
SeqsUpTo(S, n) ==
    IF n = 0 THEN {<<>>}
    ELSE LET shorter == SeqsUpTo(S, n - 1)
         IN  shorter \cup {Append(q, x) : q \in {r \in shorter : Len(r) = n - 1}, x \in S}

Range(q) == {q[k] : k \in 1..Len(q)}

\* NoteData { title, id, links }
NoteData == [title : Titles, id : Uuids, links : SeqsUpTo(Uuids, MaxLinks)]

\* the output of one compile: extract_note_fragments collects the notes from a
\* HashMap keyed by uuid, so the ids of one output are pairwise distinct
NoteLists ==
    {q \in SeqsUpTo(NoteData, MaxNotes) :
        \A k1, k2 \in 1..Len(q) : k1 # k2 => q[k1].id # q[k2].id}

OkResult(output) == [ok |-> TRUE, output |-> output]
ErrResult == [ok |-> FALSE, output |-> <<>>]
Results == {OkResult(q) : q \in NoteLists} \cup {ErrResult}

(***************************************************************************)
(* petgraph's DiGraphMap, as a pair of a node set and an edge set.          *)
(***************************************************************************)
EmptyGraph == [nodes |-> {}, edges |-> {}]

contains_node(g, i) == i \in g.nodes

add_node(g, i) == [g EXCEPT !.nodes = @ \cup {i}]

add_edge(g, i, j) ==
    [nodes |-> g.nodes \cup {i, j}, edges |-> g.edges \cup {<<i, j>>}]

remove_edge(g, i, j) == [g EXCEPT !.edges = @ \ {<<i, j>>}]

remove_node(g, i) ==
    [nodes |-> g.nodes \ {i},
     edges |-> {e \in g.edges : e[1] # i /\ e[2] # i}]

neighbors(g, i) == {j \in g.nodes : <<i, j>> \in g.edges}

incoming(g, i) == {k \in g.nodes : <<k, i>> \in g.edges}

\* map operations of HashMap
Insert(m, k, v) == (k :> v) @@ m
Remove(m, k) == [x \in DOMAIN m \ {k} |-> m[x]]
EmptyMap == [x \in {} |-> x]

(***************************************************************************)
(* NotesServiceState (notes_service.rs).  panicked records that an unwrap  *)
(* of the handler failed: the service task ends there.                     *)
(***************************************************************************)
InitState ==
    [links |-> EmptyGraph, metadata |-> EmptyMap, file_ids |-> EmptyMap,
     errors |-> EmptyMap, panicked |-> FALSE]

RECURSIVE AddEdges(_, _, _)
AddEdges(g, i, links) ==
    IF links = <<>> THEN g
    ELSE AddEdges(add_edge(g, i, Head(links)), i, Tail(links))

RECURSIVE RemoveEdges(_, _, _)
RemoveEdges(g, i, js) ==
    IF js = {} THEN g
    ELSE LET j == CHOOSE x \in js : TRUE
         IN  RemoveEdges(remove_edge(g, i, j), i, js \ {j})

create_note(s, file_id, data) ==
    [s EXCEPT
        !.links = AddEdges(add_node(@, data.id), data.id, data.links),
        !.file_ids = [@ EXCEPT ![file_id] = Append(@, data.id)],
        !.metadata = Insert(@, data.id, [title |-> data.title, file_id |-> file_id])]

RECURSIVE CreateEach(_, _, _)
CreateEach(s, file_id, output) ==
    IF output = <<>> THEN s
    ELSE CreateEach(create_note(s, file_id, Head(output)), file_id, Tail(output))

\* a variant of create_notes whose Err branch also resets the id list
create_notes_resetting(s, file_id, result) ==
    IF result.ok
    THEN CreateEach([s EXCEPT !.errors = Insert(@, file_id, "ok"),
                              !.file_ids = Insert(@, file_id, <<>>)],
                    file_id, result.output)
    ELSE [s EXCEPT !.errors = Insert(@, file_id, "err"),
                   !.file_ids = Insert(@, file_id, <<>>)]

create_notes(s, file_id, result) ==
    IF result.ok
    THEN CreateEach([s EXCEPT !.errors = Insert(@, file_id, "ok"),
                              !.file_ids = Insert(@, file_id, <<>>)],
                    file_id, result.output)
    ELSE [s EXCEPT !.errors = Insert(@, file_id, "err")]

\* a variant of update_note that keeps the outgoing edges the note had
update_note_adding(s, file_id, data) ==
    [s EXCEPT
        !.links = AddEdges(@, data.id, data.links),
        !.file_ids = [@ EXCEPT ![file_id] = Append(@, data.id)],
        !.metadata = Insert(@, data.id, [title |-> data.title, file_id |-> file_id])]

update_note(s, file_id, data) ==
    [s EXCEPT
        !.links = AddEdges(RemoveEdges(@, data.id, neighbors(@, data.id)),
                           data.id, data.links),
        !.file_ids = [@ EXCEPT ![file_id] = Append(@, data.id)],
        !.metadata = Insert(@, data.id, [title |-> data.title, file_id |-> file_id])]

RECURSIVE UpdateEach(_, _, _)
UpdateEach(s, file_id, output) ==
    IF output = <<>> THEN s
    ELSE UpdateEach(update_note(s, file_id, Head(output)), file_id, Tail(output))

\* a variant of update_entry that does not clear the id list of the file
update_entry_appending(s, file_id, result) ==
    IF result.ok
    THEN LET s1 == [s EXCEPT !.errors = Insert(@, file_id, "ok")]
         IN  IF file_id \in DOMAIN s1.file_ids
             THEN UpdateEach(s1, file_id, result.output)
             ELSE [s1 EXCEPT !.panicked = TRUE]
    ELSE [s EXCEPT !.errors = Insert(@, file_id, "err")]

\* one (file_id, result) pair of an update_notes batch
update_entry(s, file_id, result) ==
    IF result.ok
    THEN LET s1 == [s EXCEPT !.errors = Insert(@, file_id, "ok")]
         IN  IF file_id \in DOMAIN s1.file_ids
             THEN UpdateEach([s1 EXCEPT !.file_ids = [@ EXCEPT ![file_id] = <<>>]],
                             file_id, result.output)
             ELSE [s1 EXCEPT !.panicked = TRUE]
    ELSE [s EXCEPT !.errors = Insert(@, file_id, "err")]

RECURSIVE update_notes(_, _)
update_notes(s, outputs) ==
    IF outputs = <<>> \/ s.panicked THEN s
    ELSE update_notes(update_entry(s, Head(outputs).file_id, Head(outputs).result),
                      Tail(outputs))

\* a variant of RemoveEach that leaves the node of the note in the link graph
RECURSIVE RemoveEach_keeping(_, _)
RemoveEach_keeping(s, is) ==
    IF is = <<>> THEN s
    ELSE RemoveEach_keeping([s EXCEPT !.metadata = Remove(@, Head(is))], Tail(is))

RECURSIVE RemoveEach(_, _)
RemoveEach(s, is) ==
    IF is = <<>> THEN s
    ELSE RemoveEach([s EXCEPT !.metadata = Remove(@, Head(is)),
                              !.links = remove_node(@, Head(is))],
                    Tail(is))

remove_notes(s, file_id) ==
    LET s1 == [s EXCEPT !.errors = Remove(@, file_id)]
    IN  IF file_id \in DOMAIN s1.file_ids
        THEN RemoveEach([s1 EXCEPT !.file_ids = Remove(@, file_id)],
                        s1.file_ids[file_id])
        ELSE s1

\* get_note_content: "none", "some" or "io_error" (the fragment file is read
\* when the id is a node of the link graph)
get_note_content(s, disk, id) ==
    IF contains_node(s.links, id)
    THEN IF id \in disk THEN "some" ELSE "io_error"
    ELSE "none"

\* get_note_metadata: "some" with title, links and backlinks, "none", or
\* "panic" (the index metadata[&id] of a node that has no title)
get_note_metadata(s, id) ==
    IF contains_node(s.links, id)
    THEN IF id \in DOMAIN s.metadata
         THEN [tag |-> "some", title |-> s.metadata[id].title,
               links |-> neighbors(s.links, id), backlinks |-> incoming(s.links, id)]
         ELSE [tag |-> "panic"]
    ELSE [tag |-> "none"]

(***************************************************************************)
(* FileSlot and SlotCell (system_world.rs).  A cell caches the decoded     *)
(* content of one file with the fingerprint of what was read.              *)
(***************************************************************************)
\* what is on disk at the path of the file: nothing, or bytes ("bomx" is the
\* text x after a byte order mark, "bad" is no UTF-8)
Disk == {"absent", "x", "bomx", "y", "bad"}

\* the two cells of a slot
Kinds == {"source", "file"}

\* FileResult
Ok(v) == [ok |-> TRUE, v |-> v]
Err(e) == [ok |-> FALSE, v |-> e]

\* read: the bytes of the file, or the error of the file system
read(d) == IF d = "absent" THEN Err("NotFound") ELSE Ok(d)

\* decode_utf8: the text of the bytes, a byte order mark removed
decode_utf8(buf) ==
    IF buf = "bad" THEN Err("InvalidUtf8")
    ELSE IF buf = "bomx" THEN Ok("x")
    ELSE Ok(buf)

\* typst::utils::hash128 of a read result: a 128-bit hash, which tells the
\* read results of the model apart and is 0 for none of them
hash128(result) ==
    IF ~result.ok THEN 1
    ELSE CASE result.v = "x" -> 2
           [] result.v = "bomx" -> 3
           [] result.v = "y" -> 4
           [] result.v = "bad" -> 5

\* the closure f of FileSlot::source (the Source of the decoded text, the
\* previous Source reused) and of FileSlot::file (the bytes as they are)
decode(kind, data) == IF kind = "source" THEN decode_utf8(data) ELSE Ok(data)

\* SlotCell::new; data is <<>> for None and <<value>> for Some(value)
SlotCell_new == [data |-> <<>>, fingerprint |-> 0, accessed |-> FALSE]

\* a variant of reset that also drops the cached value
reset_clearing(cell) == [cell EXCEPT !.accessed = FALSE, !.data = <<>>]

\* SlotCell::reset
reset(cell) == [cell EXCEPT !.accessed = FALSE]

\* a variant of get_or_init that does not look at the accessed flag
get_or_init_rereading(cell, d, kind) ==
    LET result == read(d)
        fingerprint == hash128(result)
        c1 == [cell EXCEPT !.accessed = TRUE, !.fingerprint = fingerprint]
    IN  IF cell.fingerprint = fingerprint /\ cell.data # <<>>
        THEN [cell |-> c1, value |-> cell.data[1], loaded |-> TRUE, decoded |-> FALSE]
        ELSE LET value == IF result.ok THEN decode(kind, result.v) ELSE result
             IN  [cell |-> [c1 EXCEPT !.data = <<value>>], value |-> value,
                  loaded |-> TRUE, decoded |-> result.ok]

\* SlotCell::get_or_init on a file whose content on disk is d: the cell
\* after the call, the value returned, whether load was called (the file
\* read) and whether f was called (the bytes decoded)
get_or_init(cell, d, kind) ==
    IF cell.accessed /\ cell.data # <<>>
    THEN [cell |-> cell, value |-> cell.data[1], loaded |-> FALSE, decoded |-> FALSE]
    ELSE LET result == read(d)
             fingerprint == hash128(result)
             c1 == [cell EXCEPT !.accessed = TRUE, !.fingerprint = fingerprint]
         IN  IF cell.fingerprint = fingerprint /\ cell.data # <<>>
             THEN [cell |-> c1, value |-> cell.data[1], loaded |-> TRUE,
                   decoded |-> FALSE]
             ELSE LET value == IF result.ok THEN decode(kind, result.v) ELSE result
                  IN  [cell |-> [c1 EXCEPT !.data = <<value>>], value |-> value,
                       loaded |-> TRUE, decoded |-> result.ok]

\* FileSlot::new and FileSlot::reset
FileSlot_new == [source |-> SlotCell_new, file |-> SlotCell_new]

FileSlot_reset(slot) == [source |-> reset(slot.source), file |-> reset(slot.file)]

\* nothing observed of a cell since the last reset
NoProbe ==
    [loads |-> 0, accesses |-> 0, first |-> <<>>, last |-> <<>>, decoded |-> FALSE,
     stale |-> FALSE, again |-> FALSE]

InitProbe == [k \in Kinds |-> NoProbe]

\* no SystemWorld yet
NoWorld ==
    [phase |-> "none", main_id |-> "none", dependencies |-> {}, passed |-> {},
     earlier |-> {}, taken |-> {}, count |-> 0]

\* no traversal yet
NoBfs ==
    [phase |-> "none", start |-> "none", stack |-> <<>>, discovered |-> {},
     yielded |-> <<>>, dependents |-> <<>>, built |-> <<>>]

\* no document yet
NoDocument == [headings |-> <<>>, phase |-> "none", fragments |-> {}]

(***************************************************************************)
(* The state of the program.                                               *)
(***************************************************************************)
VARIABLES
    state,      \* NotesService.state : NotesServiceState
    receiver,   \* NotesService.receiver: the requests in the mpsc channel
    service,    \* position of NotesService::run
    cancel,     \* the shared CancellationToken
    fragments,  \* the ids u whose file build/<u>.html exists
    nReq,       \* requests posted by the environment so far
    occured,    \* Event.occured of the readiness event
    trigger,    \* position of Event::trigger
    graph,      \* BuildService.graph, the FileGraph
    is_source,  \* BuildService.is_source
    slots,      \* the file ids that have a FileSlot
    accessed,   \* the file ids whose FileSlot has an accessed flag set
    coord,      \* position of BuildService::run
    walk,       \* the paths of the startup walk not yet built
    nEvents,    \* watcher events handled so far
    initial,    \* history: the files the startup walk found, those whose fragment
                \* write failed, and the note ids of the create_notes it posted
    ledger,     \* history: the files with a create_notes posted and no remove_notes
                \* since, the files read by the latest successful build of each
                \* file, the files whose fragment write failed in the latest
                \* handler, the latest walked path or watcher event with its
                \* file, and the files the builds of
                \* the latest handler read from a slot whose accessed flag was
                \* set before the handler began
    sub,        \* the websocket connections: position of handle_updates_helper,
                \* messages sent on the socket, messages in the broadcast receiver
    history,    \* history: the mutations the service applied, with their broadcasts
    sender,     \* the broadcast channel of the service: its capacity
    file_slot,  \* one FileSlot of SystemWorld.slots: its source and file cells
    disk,       \* the content on disk of the file of that slot
    probe,      \* history: per cell, the reads of the disk and the results
                \* returned since the last reset of the slot
    world,      \* the SystemWorld of one compile: its main file and dependency
                \* set, with the ids passed to source and file as history
    bfs,        \* the traversal and the batch of one handle_modify, step by step
    document    \* one compiled document and what extract_note_fragments returned

svcVars == <<state, receiver, service>>
eventVars == <<occured, trigger>>
coordVars == <<graph, is_source, slots, accessed, coord, walk, nEvents, initial,
               ledger>>
subVars == <<sub, history>>
slotVars == <<file_slot, disk, probe>>
unitVars == <<world, bfs, document>>
vars == <<state, receiver, service, cancel, fragments, nReq, occured, trigger,
          graph, is_source, slots, accessed, coord, walk, nEvents, initial, ledger,
          sub, history, sender, file_slot, disk, probe, world, bfs, document>>

(***************************************************************************)
(* NotesMessage: the requests of the channel.                              *)
(***************************************************************************)
CreateNotes(file_id, result) ==
    [type |-> "CreateNotes", file_id |-> file_id, result |-> result]
UpdateNotes(outputs) == [type |-> "UpdateNotes", outputs |-> outputs]
RemoveNotes(file_id) == [type |-> "RemoveNotes", file_id |-> file_id]
SetBuildFinished == [type |-> "SetBuildFinished"]
GetBuildFinished(c) == [type |-> "GetBuildFinished", sub |-> c]
Subscribe(c) == [type |-> "Subscribe", sub |-> c]

Entry(file_id, result) == [file_id |-> file_id, result |-> result]

\* NotesService::handle on the mutating requests
handle(s, message) ==
    IF message.type = "CreateNotes"
        THEN create_notes(s, message.file_id, message.result)
    ELSE IF message.type = "UpdateNotes"
        THEN update_notes(s, message.outputs)
    ELSE IF message.type = "RemoveNotes"
        THEN remove_notes(s, message.file_id)
    ELSE s

\* mpsc::Sender::send: waits for room and queues the message; fails, and the
\* callers ignore it, once the receiver is closed or dropped
send(message) ==
    IF service = "running"
    THEN /\ Len(receiver) < QueueCap
         /\ receiver' = Append(receiver, message)
    ELSE receiver' = receiver

(***************************************************************************)
(* The broadcast of deltas and the snapshot of subscribe.                  *)
(***************************************************************************)
Update(notes) == [tag |-> "update", content |-> notes]
RemoveMsg(ids) == [tag |-> "remove", content |-> ids]
Building == [tag |-> "building", content |-> <<>>]
Initialize(snapshot) == [tag |-> "initialize", content |-> snapshot]

RECURSIVE OkOutputs(_)
OkOutputs(outputs) ==
    IF outputs = <<>> THEN <<>>
    ELSE (IF Head(outputs).result.ok THEN Head(outputs).result.output ELSE <<>>)
         \o OkOutputs(Tail(outputs))

\* the deltas the service broadcasts on handling a mutation in state s
broadcast_of(s, message, fired) ==
    IF message.type = "CreateNotes"
        THEN IF fired /\ message.result.ok /\ message.result.output # <<>>
             THEN <<Update(message.result.output)>> ELSE <<>>
    ELSE IF message.type = "UpdateNotes"
        THEN IF fired THEN <<Update(OkOutputs(message.outputs))>> ELSE <<>>
    ELSE IF message.type = "RemoveNotes"
        THEN IF message.file_id \in DOMAIN s.file_ids
             THEN <<RemoveMsg(s.file_ids[message.file_id])>> ELSE <<>>
    ELSE <<>>

\* Snapshot { outgoing_links, titles }
SnapshotOf(s) ==
    [outgoing_links |-> [u \in s.links.nodes |-> neighbors(s.links, u)],
     titles |-> [u \in DOMAIN s.metadata |-> s.metadata[u].title]]

\* a connection before it starts
InitSub ==
    [pc |-> "idle", socket |-> <<>>, rx |-> <<>>, lagged |-> FALSE, woken |-> FALSE,
     early |-> FALSE, at |-> 0, snapshot |-> SnapshotOf(InitState)]

\* the connections that hold a broadcast receiver
Subscribed(c) == sub[c].pc \in {"initialize", "loop"}

\* broadcast::Sender::send as one receiver sees it: the channel keeps the
\* latest capacity values, and a receiver that has more than these to
\* take loses the oldest and has lagged
RECURSIVE broadcast_send(_, _)
broadcast_send(r, bc) ==
    IF bc = <<>> THEN r
    ELSE IF Len(r.rx) < sender.capacity
        THEN broadcast_send([r EXCEPT !.rx = Append(@, Head(bc))], Tail(bc))
        ELSE broadcast_send([r EXCEPT !.rx = Append(Tail(@), Head(bc)),
                                      !.lagged = TRUE],
                            Tail(bc))

InitLedger ==
    [live |-> {}, reads |-> EmptyMap, failed |-> {}, event |-> <<"none", "none">>,
     cached |-> {}]

\* the startup walk finds any of the source roots, in directory order
Walks ==
    {q \in SeqsUpTo(NoteFiles, Cardinality(NoteFiles)) :
        \A k1, k2 \in 1..Len(q) : k1 # k2 => q[k1] # q[k2]}

Init ==
    /\ state = InitState
    /\ receiver = <<>>
    /\ service = "running"
    /\ cancel = FALSE
    /\ fragments = {}
    /\ nReq = 0
    /\ occured = FALSE
    /\ trigger = "idle"
    /\ graph = EmptyGraph
    /\ is_source = {}
    /\ slots = {}
    /\ accessed = {}
    /\ coord = "start"
    /\ walk \in Walks
    /\ nEvents = 0
    /\ initial = [walked |-> Range(walk), failed |-> {}, ids |-> {}]
    /\ ledger = InitLedger
    /\ sub = [c \in Subscribers |-> InitSub]
    /\ history = [on |-> FALSE, log |-> <<>>]
    /\ sender = [capacity |-> BUFFER_SIZE]
    /\ file_slot = FileSlot_new
    /\ disk = "absent"
    /\ probe = InitProbe
    /\ world = NoWorld
    /\ bfs = NoBfs
    /\ document = NoDocument

(***************************************************************************)
(* Event (event.rs).  trigger: the swap of the flag, then notify_waiters.  *)
(***************************************************************************)
\* a variant of has_occured that reports the event as fired at any time
has_occured_always == TRUE

has_occured == occured

\* Event::trigger up to the swap: notify_waiters follows only when the swap
\* found the flag unset
TriggerSwap ==
    /\ occured' = TRUE
    /\ trigger' = IF occured THEN "idle" ELSE "swapped"

\* Event::trigger, the call of notify_waiters: every Notified future that
\* exists is woken
TriggerNotify ==
    /\ trigger = "swapped"
    /\ trigger' = "idle"
    /\ sub' = [c \in Subscribers |->
                IF sub[c].pc = "suspended" THEN [sub[c] EXCEPT !.woken = TRUE]
                ELSE sub[c]]
    /\ UNCHANGED <<svcVars, cancel, fragments, nReq, occured, coordVars, history,
                   slotVars, sender, unitVars>>

(***************************************************************************)
(* NotesService::run (notes_service.rs).                                   *)
(***************************************************************************)
\* handling a mutation: the new state, the broadcast to the receivers that
\* exist, and the history
Mutate(message) ==
    LET s1 == handle(state, message)
        bc == IF s1.panicked THEN <<>> ELSE broadcast_of(state, message, has_occured)
    IN  /\ state' = s1
        /\ service' = IF s1.panicked THEN "panicked" ELSE service
        /\ sub' = [c \in Subscribers |->
                    IF Subscribed(c) THEN broadcast_send(sub[c], bc) ELSE sub[c]]
        /\ history' = IF history.on
                      THEN [history EXCEPT
                              !.log = Append(@, [message |-> message, broadcast |-> bc])]
                      ELSE history
        /\ UNCHANGED eventVars

\* subscribe(): the snapshot of the state and a fresh broadcast receiver
subscribe(c) ==
    /\ sub' = [sub EXCEPT ![c] = [@ EXCEPT !.pc = "initialize",
                                           !.snapshot = SnapshotOf(state),
                                           !.rx = <<>>,
                                           !.lagged = FALSE,
                                           !.at = Len(history.log)]]
    /\ UNCHANGED <<state, service, eventVars, history>>

\* get_build_finished(): the shared event is handed out
get_build_finished(c) ==
    /\ sub' = [sub EXCEPT ![c].pc = "has_occured"]
    /\ UNCHANGED <<state, service, eventVars, history>>

\* set_build_finished(): fire the readiness event
set_build_finished ==
    /\ TriggerSwap
    /\ UNCHANGED <<state, service, sub, history>>

\* the recv branch of the select and the drain loop after cancellation: one
\* request is taken from the channel and handled
ServiceRecv ==
    /\ service \in {"running", "draining"}
    /\ trigger = "idle"
    /\ receiver # <<>>
    /\ receiver' = Tail(receiver)
    /\ LET message == Head(receiver)
       IN  IF message.type = "SetBuildFinished" THEN set_build_finished
           ELSE IF message.type = "GetBuildFinished" THEN get_build_finished(message.sub)
           ELSE IF message.type = "Subscribe" THEN subscribe(message.sub)
           ELSE Mutate(message)
    /\ UNCHANGED <<cancel, fragments, nReq, coordVars,
                   slotVars, sender, unitVars>>

\* the cancelled branch of the select: close the receiver
ServiceCancelled ==
    /\ service = "running"
    /\ trigger = "idle"
    /\ cancel
    /\ service' = "draining"
    /\ UNCHANGED <<state, receiver, cancel, fragments, nReq, eventVars, coordVars,
                   subVars,
                   slotVars, sender, unitVars>>

\* the drain loop ends when the closed channel is empty
ServiceExit ==
    /\ service = "draining"
    /\ trigger = "idle"
    /\ receiver = <<>>
    /\ service' = "stopped"
    /\ UNCHANGED <<state, receiver, cancel, fragments, nReq, eventVars, coordVars,
                   subVars,
                   slotVars, sender, unitVars>>

(***************************************************************************)
(* handle_updates_helper (router.rs): one websocket connection.            *)
(***************************************************************************)
\* the call of get_build_finished: the request is posted and the handler
\* waits for the reply; the call fails when the service is gone
Connect(c) ==
    /\ sub[c].pc = "idle"
    /\ send(GetBuildFinished(c))
    /\ sub' = [sub EXCEPT ![c] = [@ EXCEPT
                 !.pc = IF service = "running" THEN "get_build_finished" ELSE "closed",
                 !.early = ~occured]]
    /\ UNCHANGED <<state, service, cancel, fragments, nReq, eventVars, coordVars,
                   history,
                   slotVars, sender, unitVars>>

\* a variant of CheckOccured that sends Building whatever the flag says
CheckOccured_always(c) ==
    /\ sub[c].pc = "has_occured"
    /\ sub' = [sub EXCEPT ![c] = [@ EXCEPT !.pc = "wait_load",
                                           !.socket = Append(@, Building)]]
    /\ UNCHANGED <<svcVars, cancel, fragments, nReq, eventVars, coordVars, history,
                   slotVars, sender, unitVars>>

\* if !build_finished.has_occured() { send Building; wait }
CheckOccured(c) ==
    /\ sub[c].pc = "has_occured"
    /\ sub' = IF has_occured
              THEN [sub EXCEPT ![c].pc = "subscribe"]
              ELSE [sub EXCEPT ![c] = [@ EXCEPT !.pc = "wait_load",
                                                !.socket = Append(@, Building)]]
    /\ UNCHANGED <<svcVars, cancel, fragments, nReq, eventVars, coordVars, history,
                   slotVars, sender, unitVars>>

\* Event::wait, the load of the flag: return when it is set
WaitLoad(c) ==
    /\ sub[c].pc = "wait_load"
    /\ sub' = [sub EXCEPT ![c].pc = IF occured THEN "subscribe" ELSE "wait_notified"]
    /\ UNCHANGED <<svcVars, cancel, fragments, nReq, eventVars, coordVars, history,
                   slotVars, sender, unitVars>>

\* Event::wait, notify.notified(): the future is created and awaited; it is
\* completed by a notify_waiters that is called from now on
WaitNotified(c) ==
    /\ sub[c].pc = "wait_notified"
    /\ sub' = [sub EXCEPT ![c] = [@ EXCEPT !.pc = "suspended", !.woken = FALSE]]
    /\ UNCHANGED <<svcVars, cancel, fragments, nReq, eventVars, coordVars, history,
                   slotVars, sender, unitVars>>

\* Event::wait returns once the future is completed
WaitResume(c) ==
    /\ sub[c].pc = "suspended"
    /\ sub[c].woken
    /\ sub' = [sub EXCEPT ![c].pc = "subscribe"]
    /\ UNCHANGED <<svcVars, cancel, fragments, nReq, eventVars, coordVars, history,
                   slotVars, sender, unitVars>>

\* the call of subscribe: the request is posted
PostSubscribe(c) ==
    /\ sub[c].pc = "subscribe"
    /\ send(Subscribe(c))
    /\ sub' = [sub EXCEPT
                 ![c].pc = IF service = "running" THEN "subscribing" ELSE "closed"]
    /\ UNCHANGED <<state, service, cancel, fragments, nReq, eventVars, coordVars,
                   history,
                   slotVars, sender, unitVars>>

\* the Initialize message with the snapshot is sent on the socket
SendInitialize(c) ==
    /\ sub[c].pc = "initialize"
    /\ sub' = [sub EXCEPT ![c] = [@ EXCEPT !.pc = "loop",
                                           !.socket = Append(@, Initialize(sub[c].snapshot))]]
    /\ UNCHANGED <<svcVars, cancel, fragments, nReq, eventVars, coordVars, history,
                   slotVars, sender, unitVars>>

\* a variant of Forward that takes a delta and sends nothing
Forward_dropping(c) ==
    /\ sub[c].pc = "loop"
    /\ ~sub[c].lagged
    /\ sub[c].rx # <<>>
    /\ sub' = [sub EXCEPT ![c].rx = Tail(@)]
    /\ UNCHANGED <<svcVars, cancel, fragments, nReq, eventVars, coordVars, history,
                   slotVars, sender, unitVars>>

\* one turn of the loop: receiver.recv() yields a delta, which is sent on
\* the socket with its tag and content
Forward(c) ==
    /\ sub[c].pc = "loop"
    /\ ~sub[c].lagged
    /\ sub[c].rx # <<>>
    /\ sub' = [sub EXCEPT ![c] = [@ EXCEPT !.rx = Tail(@),
                                           !.socket = Append(@, Head(sub[c].rx))]]
    /\ UNCHANGED <<svcVars, cancel, fragments, nReq, eventVars, coordVars, history,
                   slotVars, sender, unitVars>>

\* a variant of Lagged in which the panic ends the service as well
Lagged_aborting(c) ==
    /\ sub[c].pc = "loop"
    /\ sub[c].lagged
    /\ sub' = [sub EXCEPT ![c].pc = "closed"]
    /\ service' = "panicked"
    /\ UNCHANGED <<state, receiver, cancel, fragments, nReq, eventVars, coordVars,
                   history, slotVars, sender, unitVars>>

\* RecvError::Lagged: the handler panics; the panic ends the task of this
\* connection, whose socket is dropped
Lagged(c) ==
    /\ sub[c].pc = "loop"
    /\ sub[c].lagged
    /\ sub' = [sub EXCEPT ![c].pc = "closed"]
    /\ UNCHANGED <<svcVars, cancel, fragments, nReq, eventVars, coordVars, history,
                   slotVars, sender, unitVars>>

\* RecvError::Closed: the service, and with it the broadcast sender, is gone
SubClosed(c) ==
    /\ sub[c].pc = "loop"
    /\ sub[c].rx = <<>>
    /\ service \in {"stopped", "panicked"}
    /\ sub' = [sub EXCEPT ![c].pc = "closed"]
    /\ UNCHANGED <<svcVars, cancel, fragments, nReq, eventVars, coordVars, history,
                   slotVars, sender, unitVars>>

(***************************************************************************)
(* build (build_service.rs): what one compile of main file i may yield.    *)
(***************************************************************************)
Ids(output) == {output[k].id : k \in 1..Len(output)}

DepSets(i) == {d \in SUBSET (FileIds \ {i}) : Cardinality(d) <= MaxDeps}

\* kind "ok": Ok(Ok(..)), every fragment written; "compile_err": Ok(Err(..)),
\* nothing written; "write_err": Err(io), some write of the output failed
\* (a failed build is taken to fail before it read any other file)
BuildLists == {q \in NoteLists : Len(q) <= MaxBuildNotes}

BuildOutcomes(i) ==
    {[kind |-> "ok", output |-> q, dependencies |-> d, written |-> Ids(q)] :
        q \in BuildLists, d \in DepSets(i)}
    \cup
    {[kind |-> "compile_err", output |-> <<>>, dependencies |-> {}, written |-> {}]}
    \cup
    UNION {{[kind |-> "write_err", output |-> q, dependencies |-> {}, written |-> w] :
                w \in (SUBSET Ids(q)) \ {Ids(q)}} :
            q \in BuildLists \ {<<>>}}

\* the effect of one build on the file slots and on the build directory
Built(i, b, sl) == sl \cup {i} \cup b.dependencies

(***************************************************************************)
(* BuildService (build_service.rs).                                        *)
(***************************************************************************)
RECURSIVE AddEdgesFrom(_, _, _)
AddEdgesFrom(g, i, js) ==
    IF js = {} THEN g
    ELSE LET j == CHOOSE x \in js : TRUE
         IN  AddEdgesFrom(add_edge(g, i, j), i, js \ {j})

RECURSIVE AddEdgesTo(_, _, _)
AddEdgesTo(g, ks, j) ==
    IF ks = {} THEN g
    ELSE LET k == CHOOSE x \in ks : TRUE
         IN  AddEdgesTo(add_edge(g, k, j), ks \ {k}, j)

RECURSIVE RemoveEdgesTo(_, _, _)
RemoveEdgesTo(g, ks, j) ==
    IF ks = {} THEN g
    ELSE LET k == CHOOSE x \in ks : TRUE
         IN  RemoveEdgesTo(remove_edge(g, k, j), ks \ {k}, j)

\* handle_create(i) with build outcome b
handle_create(i, b) ==
    /\ slots' = Built(i, b, slots)
    /\ accessed' = Built(i, b, accessed)
    /\ fragments' = fragments \cup b.written
    /\ is_source' = is_source
    /\ IF b.kind = "ok"
       THEN /\ graph' = AddEdgesFrom(add_node(graph, i), i, b.dependencies)
            /\ send(CreateNotes(i, OkResult(b.output)))
            /\ cancel' = cancel
       ELSE IF b.kind = "compile_err"
       THEN /\ graph' = graph
            /\ send(CreateNotes(i, ErrResult))
            /\ cancel' = cancel
       ELSE /\ graph' = graph
            /\ receiver' = receiver
            /\ cancel' = TRUE
    /\ ledger' = IF b.kind = "write_err"
                 THEN [ledger EXCEPT !.failed = {i}, !.event = <<"create", i>>,
                                     !.cached = Built(i, b, {}) \cap accessed]
                 ELSE [live |-> IF receiver' # receiver THEN ledger.live \cup {i}
                                ELSE ledger.live,
                       reads |-> IF b.kind = "ok"
                                 THEN Insert(ledger.reads, i, b.dependencies)
                                 ELSE ledger.reads,
                       failed |-> {},
                       event |-> <<"create", i>>,
                       cached |-> Built(i, b, {}) \cap accessed]

\* BuildService::start, one turn of the loop over the walked paths
StartCreate ==
    /\ coord = "start"
    /\ ~cancel
    /\ walk # <<>>
    /\ \E b \in BuildOutcomes(Head(walk)) :
          /\ handle_create(Head(walk), b)
          /\ initial' = IF b.kind = "write_err"
                        THEN [initial EXCEPT !.failed = @ \cup {Head(walk)}]
                        ELSE [initial EXCEPT !.ids = @ \cup Ids(b.output)]
    /\ walk' = Tail(walk)
    /\ UNCHANGED <<state, service, nReq, eventVars, coord, nEvents, subVars,
                   slotVars, sender, unitVars>>

\* a variant of StartFinished that does not wait for the end of the walk
StartFinished_early ==
    /\ coord = "start"
    /\ send(SetBuildFinished)
    /\ coord' = "watching"
    /\ UNCHANGED <<state, service, cancel, fragments, nReq, eventVars,
                   graph, is_source, slots, accessed, walk, nEvents, initial, ledger,
                   subVars,
                   slotVars, sender, unitVars>>

\* BuildService::start after the walk: post set_build_finished, start to watch
StartFinished ==
    /\ coord = "start"
    /\ walk = <<>>
    /\ send(SetBuildFinished)
    /\ coord' = "watching"
    /\ UNCHANGED <<state, service, cancel, fragments, nReq, eventVars,
                   graph, is_source, slots, accessed, walk, nEvents, initial, ledger,
                   subVars,
                   slotVars, sender, unitVars>>

\* BuildService::run, a Create event of the watcher
EventCreate ==
    /\ coord = "watching"
    /\ nEvents < MaxEvents
    /\ \E i \in LocalFiles :
        IF package(i) = "none" /\ i \in NoteFiles
        THEN \E b \in BuildOutcomes(i) : handle_create(i, b)
        ELSE /\ ledger' = [ledger EXCEPT !.event = <<"create", i>>, !.cached = {}]
             /\ UNCHANGED <<receiver, cancel, fragments, graph, is_source, slots,
                            accessed>>
    /\ nEvents' = nEvents + 1
    /\ UNCHANGED <<state, service, nReq, eventVars, coord, walk, initial, subVars,
                   slotVars, sender, unitVars>>

\* petgraph's Bfs from i over the outgoing edges: the nodes in the order of
\* their discovery, any order within one level
Perms(S) ==
    {q \in SeqsUpTo(S, Cardinality(S)) : Len(q) = Cardinality(S) /\ Range(q) = S}

RECURSIVE BfsOrders(_, _, _)
BfsOrders(g, frontier, visited) ==
    IF frontier = {} THEN {<<>>}
    ELSE LET next == UNION {neighbors(g, j) : j \in frontier} \ (visited \cup frontier)
         IN  {p \o q : p \in Perms(frontier),
                        q \in BfsOrders(g, next, visited \cup frontier)}

Bfs(g, i) == BfsOrders(g, {i}, {})

\* a variant of modify_step that keeps the result of a build whose fragment
\* write failed
modify_step_keeping(st, j, b) ==
    LET st1 == [st EXCEPT !.slots = Built(j, b, @),
                          !.read = Built(j, b, @),
                          !.fragments = @ \cup b.written]
    IN  IF b.kind = "ok"
        THEN [st1 EXCEPT
                !.graph = AddEdgesTo(RemoveEdgesTo(@, incoming(@, j), j),
                                     {k \in b.dependencies : package(k) = "none"}, j),
                !.results = Append(@, Entry(j, OkResult(b.output))),
                !.reads = Insert(@, j, b.dependencies)]
        ELSE IF b.kind = "compile_err"
        THEN [st1 EXCEPT !.results = Append(@, Entry(j, ErrResult))]
        ELSE [st1 EXCEPT !.cancel = TRUE, !.failed = @ \cup {j},
                         !.results = Append(@, Entry(j, OkResult(b.output)))]

\* a variant of modify_step that keeps the incoming edges j had
modify_step_adding(st, j, b) ==
    LET st1 == [st EXCEPT !.slots = Built(j, b, @),
                          !.read = Built(j, b, @),
                          !.fragments = @ \cup b.written]
    IN  IF b.kind = "ok"
        THEN [st1 EXCEPT
                !.graph = AddEdgesTo(@, {k \in b.dependencies : package(k) = "none"}, j),
                !.results = Append(@, Entry(j, OkResult(b.output))),
                !.reads = Insert(@, j, b.dependencies)]
        ELSE IF b.kind = "compile_err"
        THEN [st1 EXCEPT !.results = Append(@, Entry(j, ErrResult))]
        ELSE [st1 EXCEPT !.cancel = TRUE, !.failed = @ \cup {j}]

\* handle_modify, one turn of the loop over the dependents: build j and, on
\* success, replace the incoming edges of j by its project-local dependencies
modify_step(st, j, b) ==
    LET st1 == [st EXCEPT !.slots = Built(j, b, @),
                          !.read = Built(j, b, @),
                          !.fragments = @ \cup b.written]
    IN  IF b.kind = "ok"
        THEN [st1 EXCEPT
                !.graph = AddEdgesTo(RemoveEdgesTo(@, incoming(@, j), j),
                                     {k \in b.dependencies : package(k) = "none"}, j),
                !.results = Append(@, Entry(j, OkResult(b.output))),
                !.reads = Insert(@, j, b.dependencies)]
        ELSE IF b.kind = "compile_err"
        THEN [st1 EXCEPT !.results = Append(@, Entry(j, ErrResult))]
        ELSE [st1 EXCEPT !.cancel = TRUE, !.failed = @ \cup {j}]

RECURSIVE ModifyRuns(_, _)
ModifyRuns(dependents, st) ==
    IF dependents = <<>> THEN {st}
    ELSE UNION {ModifyRuns(Tail(dependents), modify_step(st, Head(dependents), b)) :
                    b \in BuildOutcomes(Head(dependents))}

\* the files handle_modify(i) builds: i, then the source roots the Bfs yields
Dependents(i) ==
    {<<i>> \o SelectSeq(order, LAMBDA j : j \in is_source) : order \in Bfs(graph, i)}

\* a variant of reset_slots that resets the slot of i alone
reset_slots_root(acc, g, i) == acc \ {i}

\* handle_modify, the loop over the Bfs under the lock of the slots:
\* FileSlot::reset on the slot of every file the Bfs from i yields
reset_slots(acc, g, i) == acc \ Range(CHOOSE order \in Bfs(g, i) : TRUE)

\* handle_modify(i): resetting the slot of a reached file that has none panics
handle_modify(i) ==
    IF \E j \in Range(CHOOSE order \in Bfs(graph, i) : TRUE) : j \notin slots
    THEN /\ coord' = "panicked"
         /\ ledger' = [ledger EXCEPT !.event = <<"modify", i>>, !.cached = {}]
         /\ UNCHANGED <<receiver, cancel, fragments, graph, is_source, slots,
                        accessed>>
    ELSE \E dependents \in Dependents(i) :
         \E run \in ModifyRuns(dependents,
                    [graph |-> graph, fragments |-> fragments, slots |-> slots,
                     read |-> {}, results |-> <<>>, cancel |-> cancel,
                     reads |-> ledger.reads, failed |-> {}]) :
            /\ graph' = run.graph
            /\ fragments' = run.fragments
            /\ slots' = run.slots
            /\ accessed' = reset_slots(accessed, graph, i) \cup run.read
            /\ cancel' = run.cancel
            /\ send(UpdateNotes(run.results))
            /\ ledger' = [ledger EXCEPT
                            !.reads = run.reads, !.failed = run.failed,
                            !.event = <<"modify", i>>,
                            !.cached = run.read \cap reset_slots(accessed, graph, i)]
            /\ UNCHANGED <<is_source, coord>>

\* BuildService::run, a Modify event of the watcher
EventModify ==
    /\ coord = "watching"
    /\ nEvents < MaxEvents
    /\ \E i \in LocalFiles :
        IF contains_node(graph, i) \/ i \in NoteFiles
        THEN handle_modify(i)
        ELSE /\ ledger' = [ledger EXCEPT !.event = <<"modify", i>>, !.cached = {}]
             /\ UNCHANGED <<receiver, cancel, fragments, graph, is_source, slots,
                            accessed, coord>>
    /\ nEvents' = nEvents + 1
    /\ UNCHANGED <<state, service, nReq, eventVars, walk, initial, subVars,
                   slotVars, sender, unitVars>>

\* a variant of handle_remove that removes the edges of i and leaves the node
handle_remove_keeping(i) ==
    /\ graph' = [graph EXCEPT !.edges = {e \in @ : e[1] # i /\ e[2] # i}]
    /\ is_source' = is_source \ {i}
    /\ send(RemoveNotes(i))
    /\ ledger' = [live |-> IF receiver' # receiver THEN ledger.live \ {i}
                           ELSE ledger.live,
                  reads |-> Remove(ledger.reads, i),
                  failed |-> {},
                  event |-> <<"remove", i>>,
                  cached |-> {}]

\* handle_remove(i)
handle_remove(i) ==
    /\ graph' = remove_node(graph, i)
    /\ is_source' = is_source \ {i}
    /\ send(RemoveNotes(i))
    /\ ledger' = [live |-> IF receiver' # receiver THEN ledger.live \ {i}
                           ELSE ledger.live,
                  reads |-> Remove(ledger.reads, i),
                  failed |-> {},
                  event |-> <<"remove", i>>,
                  cached |-> {}]

\* BuildService::run, a Remove event of the watcher
EventRemove ==
    /\ coord = "watching"
    /\ nEvents < MaxEvents
    /\ \E i \in LocalFiles : handle_remove(i)
    /\ nEvents' = nEvents + 1
    /\ UNCHANGED <<state, service, cancel, fragments, nReq, eventVars,
                   slots, accessed, coord, walk, initial, subVars,
                   slotVars, sender, unitVars>>

\* BuildService::run, the cancelled branch of either select
CoordCancelled ==
    /\ coord \in {"start", "watching"}
    /\ cancel
    /\ coord' = "stopped"
    /\ UNCHANGED <<svcVars, cancel, fragments, nReq, eventVars,
                   graph, is_source, slots, accessed, walk, nEvents, initial, ledger,
                   subVars,
                   slotVars, sender, unitVars>>

Next ==
    \/ StartCreate
    \/ StartFinished
    \/ EventCreate
    \/ EventModify
    \/ EventRemove
    \/ CoordCancelled
    \/ ServiceRecv
    \/ ServiceCancelled
    \/ ServiceExit
    \/ TriggerNotify

Spec == Init /\ [][Next]_vars

(***************************************************************************)
(* SpecService: the notes service under any sequence of requests of its    *)
(* handle (NotesServiceHandle::create_notes, update_notes, remove_notes).  *)
(***************************************************************************)
InitService ==
    /\ state = InitState
    /\ receiver = <<>>
    /\ service = "running"
    /\ cancel = FALSE
    /\ fragments = {}
    /\ nReq = 0
    /\ occured = FALSE
    /\ trigger = "idle"
    /\ graph = EmptyGraph
    /\ is_source = {}
    /\ slots = {}
    /\ accessed = {}
    /\ coord = "absent"
    /\ walk = <<>>
    /\ nEvents = 0
    /\ initial = [walked |-> {}, failed |-> {}, ids |-> {}]
    /\ ledger = InitLedger
    /\ sub = [c \in Subscribers |-> InitSub]
    /\ history = [on |-> FALSE, log |-> <<>>]
    /\ sender = [capacity |-> BUFFER_SIZE]
    /\ file_slot = FileSlot_new
    /\ disk = "absent"
    /\ probe = InitProbe
    /\ world = NoWorld
    /\ bfs = NoBfs
    /\ document = NoDocument

\* a request of NotesServiceHandle::create_notes
PostCreateNotes ==
    /\ nReq < MaxReq
    /\ \E f \in NoteFiles, r \in Results : send(CreateNotes(f, r))
    /\ nReq' = nReq + 1
    /\ UNCHANGED <<state, service, cancel, fragments, eventVars, coordVars, subVars,
                   slotVars, sender, unitVars>>

\* the results that are paired with a failed compile in a batch of two
PairResults ==
    {ErrResult, OkResult(<<>>),
     OkResult(<<[title |-> "A", id |-> "u1", links |-> <<>>]>>)}

\* a request of NotesServiceHandle::update_notes: a batch of one entry, or
\* a batch of two of which one is a failed compile
PostUpdateNotes ==
    /\ nReq < MaxReq
    /\ \/ \E f \in NoteFiles, r \in Results : send(UpdateNotes(<<Entry(f, r)>>))
       \/ \E f1, f2 \in NoteFiles, r \in PairResults :
             \/ send(UpdateNotes(<<Entry(f1, ErrResult), Entry(f2, r)>>))
             \/ send(UpdateNotes(<<Entry(f1, r), Entry(f2, ErrResult)>>))
    /\ nReq' = nReq + 1
    /\ UNCHANGED <<state, service, cancel, fragments, eventVars, coordVars, subVars,
                   slotVars, sender, unitVars>>

\* a request of NotesServiceHandle::remove_notes
PostRemoveNotes ==
    /\ nReq < MaxReq
    /\ \E f \in NoteFiles : send(RemoveNotes(f))
    /\ nReq' = nReq + 1
    /\ UNCHANGED <<state, service, cancel, fragments, eventVars, coordVars, subVars,
                   slotVars, sender, unitVars>>

NextService ==
    \/ PostCreateNotes
    \/ PostUpdateNotes
    \/ PostRemoveNotes
    \/ ServiceRecv

SpecService == InitService /\ [][NextService]_vars

(***************************************************************************)
(* The service with its websocket connections: the coordinator is reduced  *)
(* to the requests it posts, over one source root and short outputs.       *)
(***************************************************************************)
SubFiles == {"a.typ"}
SubResults ==
    {OkResult(q) : q \in {b \in BuildLists : Ids(b) \subseteq {"u1"}}} \cup {ErrResult}

InitSubs ==
    /\ state = InitState
    /\ receiver = <<>>
    /\ service = "running"
    /\ cancel = FALSE
    /\ fragments = {}
    /\ nReq = 0
    /\ occured = FALSE
    /\ trigger = "idle"
    /\ graph = EmptyGraph
    /\ is_source = {}
    /\ slots = {}
    /\ accessed = {}
    /\ coord = "start"
    /\ walk = <<>>
    /\ nEvents = 0
    /\ initial = [walked |-> {}, failed |-> {}, ids |-> {}]
    /\ ledger = InitLedger
    /\ sub = [c \in Subscribers |-> InitSub]
    /\ history = [on |-> TRUE, log |-> <<>>]
    /\ sender = [capacity |-> BUFFER_SIZE]
    /\ file_slot = FileSlot_new
    /\ disk = "absent"
    /\ probe = InitProbe
    /\ world = NoWorld
    /\ bfs = NoBfs
    /\ document = NoDocument

\* a mutation posted by the coordinator
PostMutation ==
    /\ nReq < MaxSubReq
    /\ \E f \in SubFiles, r \in SubResults :
          \/ send(CreateNotes(f, r))
          \/ send(UpdateNotes(<<Entry(f, r)>>))
          \/ send(RemoveNotes(f))
    /\ nReq' = nReq + 1
    /\ UNCHANGED <<state, service, cancel, fragments, eventVars, coordVars, subVars,
                   slotVars, sender, unitVars>>

NextSub ==
    \/ PostMutation
    \/ StartFinished
    \/ ServiceRecv
    \/ TriggerNotify
    \/ \E c \in Subscribers :
          \/ Connect(c)
          \/ CheckOccured(c)
          \/ WaitLoad(c)
          \/ WaitNotified(c)
          \/ WaitResume(c)
          \/ PostSubscribe(c)
          \/ SendInitialize(c)
          \/ Forward(c)
          \/ SubClosed(c)

SpecSub == InitSubs /\ [][NextSub]_vars

(***************************************************************************)
(* The service under cancellation: requests are posted, ctrl-c cancels the *)
(* token, the service closes its receiver, drains it and exits.            *)
(***************************************************************************)
\* main.rs: ctrl-c cancels the token
CtrlC ==
    /\ ~cancel
    /\ cancel' = TRUE
    /\ UNCHANGED <<svcVars, fragments, nReq, eventVars, coordVars, subVars,
                   slotVars, sender, unitVars>>

NextShutdown ==
    \/ PostMutation
    \/ CtrlC
    \/ ServiceRecv
    \/ ServiceCancelled
    \/ ServiceExit

SpecShutdown == InitService /\ [][NextShutdown]_vars

(***************************************************************************)
(* The websocket connections on a broadcast channel of small capacity,     *)
(* after the startup: a connection that is slow to take its deltas lags.   *)
(***************************************************************************)
LagResults == {OkResult(<<[title |-> "A", id |-> "u1", links |-> <<>>]>>)}

InitLag ==
    /\ state = InitState
    /\ receiver = <<>>
    /\ service = "running"
    /\ cancel = FALSE
    /\ fragments = {}
    /\ nReq = 0
    /\ occured = TRUE
    /\ trigger = "idle"
    /\ graph = EmptyGraph
    /\ is_source = {}
    /\ slots = {}
    /\ accessed = {}
    /\ coord = "watching"
    /\ walk = <<>>
    /\ nEvents = 0
    /\ initial = [walked |-> {}, failed |-> {}, ids |-> {}]
    /\ ledger = InitLedger
    /\ sub = [c \in Subscribers |-> InitSub]
    /\ history = [on |-> TRUE, log |-> <<>>]
    /\ sender = [capacity |-> BroadcastCap]
    /\ file_slot = FileSlot_new
    /\ disk = "absent"
    /\ probe = InitProbe
    /\ world = NoWorld
    /\ bfs = NoBfs
    /\ document = NoDocument

\* a mutation posted by the coordinator
PostLag ==
    /\ nReq < MaxLagReq
    /\ \E f \in SubFiles, r \in LagResults :
          \/ send(CreateNotes(f, r))
          \/ send(UpdateNotes(<<Entry(f, r)>>))
          \/ send(RemoveNotes(f))
    /\ nReq' = nReq + 1
    /\ UNCHANGED <<state, service, cancel, fragments, eventVars, coordVars, subVars,
                   slotVars, sender, unitVars>>

NextLag ==
    \/ PostLag
    \/ ServiceRecv
    \/ \E c \in Subscribers :
          \/ Connect(c)
          \/ CheckOccured(c)
          \/ PostSubscribe(c)
          \/ SendInitialize(c)
          \/ Forward(c)
          \/ Lagged(c)

SpecLag == InitLag /\ [][NextLag]_vars

(***************************************************************************)
(* One file slot under the accesses of the compiles, the resets of         *)
(* handle_modify and the changes of the file on disk.                      *)
(***************************************************************************)
InitSlot ==
    /\ state = InitState
    /\ receiver = <<>>
    /\ service = "running"
    /\ cancel = FALSE
    /\ fragments = {}
    /\ nReq = 0
    /\ occured = FALSE
    /\ trigger = "idle"
    /\ graph = EmptyGraph
    /\ is_source = {}
    /\ slots = {}
    /\ accessed = {}
    /\ coord = "absent"
    /\ walk = <<>>
    /\ nEvents = 0
    /\ initial = [walked |-> {}, failed |-> {}, ids |-> {}]
    /\ ledger = InitLedger
    /\ sub = [c \in Subscribers |-> InitSub]
    /\ history = [on |-> FALSE, log |-> <<>>]
    /\ sender = [capacity |-> BUFFER_SIZE]
    /\ file_slot = FileSlot_new
    /\ disk \in Disk
    /\ probe = InitProbe
    /\ world = NoWorld
    /\ bfs = NoBfs
    /\ document = NoDocument

Capped(n) == IF n < MaxCount THEN n + 1 ELSE n

\* World::source and World::file: a compile accesses a cell of the slot
Access(kind) ==
    LET r == get_or_init(file_slot[kind], disk, kind)
    IN  /\ file_slot' = [file_slot EXCEPT ![kind] = r.cell]
        /\ probe' = [probe EXCEPT ![kind] =
                        [loads |-> IF r.loaded THEN Capped(@.loads) ELSE @.loads,
                         accesses |-> Capped(@.accesses),
                         first |-> IF @.first = <<>> THEN <<r.value>> ELSE @.first,
                         last |-> <<r.value>>,
                         decoded |-> r.decoded,
                         stale |-> @.stale \/
                                     (@.accesses > 0 /\
                                      hash128(read(disk)) # file_slot[kind].fingerprint),
                         again |-> @.again \/
                                     (~file_slot[kind].accessed /\
                                      file_slot[kind].data # <<>>)]]
        /\ UNCHANGED <<svcVars, cancel, fragments, nReq, eventVars, coordVars, subVars,
                       sender, disk, unitVars>>

\* handle_modify resets the slot of a file it reached
ResetSlot ==
    /\ file_slot' = FileSlot_reset(file_slot)
    /\ probe' = InitProbe
    /\ UNCHANGED <<svcVars, cancel, fragments, nReq, eventVars, coordVars, subVars,
                   sender, disk, unitVars>>

\* the file is written, replaced or deleted
WriteFile ==
    /\ \E d \in Disk \ {disk} : disk' = d
    /\ UNCHANGED <<svcVars, cancel, fragments, nReq, eventVars, coordVars, subVars,
                   sender, file_slot, probe, unitVars>>

NextSlot ==
    \/ \E kind \in Kinds : Access(kind)
    \/ ResetSlot
    \/ WriteFile

SpecSlot == InitSlot /\ [][NextSlot]_vars

(***************************************************************************)
(* SpecWorld: the compiles of the coordinator, one SystemWorld after the   *)
(* other on the shared file slots (system_world.rs).                       *)
(***************************************************************************)
\* the compiles of one run
MaxWorlds == 2

InitWorld ==
    /\ state = InitState
    /\ receiver = <<>>
    /\ service = "running"
    /\ cancel = FALSE
    /\ fragments = {}
    /\ nReq = 0
    /\ occured = FALSE
    /\ trigger = "idle"
    /\ graph = EmptyGraph
    /\ is_source = {}
    /\ slots = {}
    /\ accessed = {}
    /\ coord = "absent"
    /\ walk = <<>>
    /\ nEvents = 0
    /\ initial = [walked |-> {}, failed |-> {}, ids |-> {}]
    /\ ledger = InitLedger
    /\ sub = [c \in Subscribers |-> InitSub]
    /\ history = [on |-> FALSE, log |-> <<>>]
    /\ sender = [capacity |-> BUFFER_SIZE]
    /\ file_slot = FileSlot_new
    /\ disk = "absent"
    /\ probe = InitProbe
    /\ world = NoWorld
    /\ bfs = NoBfs
    /\ document = NoDocument

\* SystemWorld::new for main file m: a dependency set of its own; the world
\* of a compile that failed is dropped with its set
WorldNew(m) ==
    /\ world.count < MaxWorlds
    /\ world' = [phase |-> "compiling", main_id |-> m, dependencies |-> {},
                 passed |-> {}, earlier |-> world.earlier \cup world.passed,
                 taken |-> world.taken, count |-> world.count + 1]
    /\ UNCHANGED <<svcVars, cancel, fragments, nReq, eventVars, coordVars, subVars,
                   slotVars, sender, bfs, document>>

\* a variant of WorldAccess that records the main file too
WorldAccess_main(id) ==
    /\ world.phase = "compiling"
    /\ world' = [world EXCEPT !.dependencies = @ \cup {id},
                              !.passed = @ \cup {id}]
    /\ slots' = slots \cup {id}
    /\ accessed' = accessed \cup {id}
    /\ UNCHANGED <<svcVars, cancel, fragments, nReq, eventVars, graph, is_source,
                   coord, walk, nEvents, initial, ledger, subVars, slotVars, sender,
                   bfs, document>>

\* World::source(id) and World::file(id): the id is recorded unless it is
\* the main file, and its slot is made and accessed
WorldAccess(id) ==
    /\ world.phase = "compiling"
    /\ world' = [world EXCEPT
                    !.dependencies = IF id # world.main_id THEN @ \cup {id} ELSE @,
                    !.passed = @ \cup {id}]
    /\ slots' = slots \cup {id}
    /\ accessed' = accessed \cup {id}
    /\ UNCHANGED <<svcVars, cancel, fragments, nReq, eventVars, graph, is_source,
                   coord, walk, nEvents, initial, ledger, subVars, slotVars, sender,
                   bfs, document>>

\* SystemWorld::into_dependencies: takes the set out of the world
IntoDependencies ==
    /\ world.phase = "compiling"
    /\ world' = [world EXCEPT !.phase = "done", !.taken = world.dependencies,
                              !.dependencies = {}]
    /\ UNCHANGED <<svcVars, cancel, fragments, nReq, eventVars, coordVars, subVars,
                   slotVars, sender, bfs, document>>

NextWorld ==
    \/ \E m \in LocalFiles : WorldNew(m)
    \/ \E id \in FileIds : WorldAccess(id)
    \/ IntoDependencies

SpecWorld == InitWorld /\ [][NextWorld]_vars

(***************************************************************************)
(* SpecBfs: one handle_modify step by step on any FileGraph: the Bfs of    *)
(* petgraph with the reset loop, then the loop over the dependents.        *)
(***************************************************************************)
InitBfs ==
    /\ state = InitState
    /\ receiver = <<>>
    /\ service = "running"
    /\ cancel = FALSE
    /\ fragments = {}
    /\ nReq = 0
    /\ occured = FALSE
    /\ trigger = "idle"
    /\ coord = "absent"
    /\ walk = <<>>
    /\ nEvents = 0
    /\ initial = [walked |-> {}, failed |-> {}, ids |-> {}]
    /\ ledger = InitLedger
    /\ sub = [c \in Subscribers |-> InitSub]
    /\ history = [on |-> FALSE, log |-> <<>>]
    /\ sender = [capacity |-> BUFFER_SIZE]
    /\ file_slot = FileSlot_new
    /\ disk = "absent"
    /\ probe = InitProbe
    /\ world = NoWorld
    /\ bfs = NoBfs
    /\ document = NoDocument
    /\ \E nodes \in SUBSET LocalFiles :
        /\ graph \in [nodes : {nodes}, edges : SUBSET (nodes \X nodes)]
        /\ slots \in {nodes, LocalFiles}
    /\ accessed = slots
    /\ is_source \in SUBSET NoteFiles

\* handle_modify(i) up to the lock: Bfs::new(&graph, i) and dependents.push(i)
BfsNew(i) ==
    /\ bfs.phase = "none"
    /\ contains_node(graph, i) \/ i \in NoteFiles
    /\ bfs' = [phase |-> "walking", start |-> i, stack |-> <<i>>, discovered |-> {i},
               yielded |-> <<>>, dependents |-> <<i>>, built |-> <<>>]
    /\ UNCHANGED <<svcVars, cancel, fragments, nReq, eventVars, coordVars, subVars,
                   slotVars, sender, world, document>>

\* a variant of BfsNext that queues every successor, discovered or not
BfsNext_revisiting ==
    /\ bfs.phase = "walking"
    /\ bfs.stack # <<>>
    /\ LET j == Head(bfs.stack)
       IN  /\ \E p \in Perms(neighbors(graph, j)) :
                bfs' = [bfs EXCEPT
                          !.stack = Tail(@) \o p,
                          !.discovered = @ \cup neighbors(graph, j),
                          !.yielded = Append(@, j),
                          !.dependents = IF j \in is_source THEN Append(@, j) ELSE @,
                          !.phase = IF j \in slots THEN @ ELSE "panicked"]
           /\ accessed' = accessed \ {j}
    /\ UNCHANGED <<svcVars, cancel, fragments, nReq, eventVars, graph, is_source,
                   slots, coord, walk, nEvents, initial, ledger, subVars, slotVars,
                   sender, world, document>>

\* one turn of the while loop: Bfs::next takes the front of the queue and
\* queues its successors not yet discovered; the file is pushed to the
\* dependents when it is a source root and its slot is reset (the unwrap of
\* a missing slot panics)
BfsNext ==
    /\ bfs.phase = "walking"
    /\ bfs.stack # <<>>
    /\ LET j == Head(bfs.stack)
       IN  /\ \E p \in Perms(neighbors(graph, j) \ bfs.discovered) :
                bfs' = [bfs EXCEPT
                          !.stack = Tail(@) \o p,
                          !.discovered = @ \cup neighbors(graph, j),
                          !.yielded = Append(@, j),
                          !.dependents = IF j \in is_source THEN Append(@, j) ELSE @,
                          !.phase = IF j \in slots THEN @ ELSE "panicked"]
           /\ accessed' = accessed \ {j}
    /\ UNCHANGED <<svcVars, cancel, fragments, nReq, eventVars, graph, is_source,
                   slots, coord, walk, nEvents, initial, ledger, subVars, slotVars,
                   sender, world, document>>

\* Bfs::next returns None: the lock is released
BfsEnd ==
    /\ bfs.phase = "walking"
    /\ bfs.stack = <<>>
    /\ bfs' = [bfs EXCEPT !.phase = "building"]
    /\ UNCHANGED <<svcVars, cancel, fragments, nReq, eventVars, coordVars, subVars,
                   slotVars, sender, world, document>>

\* one turn of the loop over the dependents: the build of the next one
BuildNext ==
    /\ bfs.phase = "building"
    /\ Len(bfs.built) < Len(bfs.dependents)
    /\ bfs' = [bfs EXCEPT !.built = Append(@, bfs.dependents[Len(@) + 1])]
    /\ slots' = slots \cup {bfs.dependents[Len(bfs.built) + 1]}
    /\ accessed' = accessed \cup {bfs.dependents[Len(bfs.built) + 1]}
    /\ UNCHANGED <<svcVars, cancel, fragments, nReq, eventVars, graph, is_source,
                   coord, walk, nEvents, initial, ledger, subVars, slotVars, sender,
                   world, document>>

\* the end of the loop: update_notes(results) is posted and handle_modify
\* returns
PostBatch ==
    /\ bfs.phase = "building"
    /\ Len(bfs.built) = Len(bfs.dependents)
    /\ bfs' = [bfs EXCEPT !.phase = "done"]
    /\ UNCHANGED <<svcVars, cancel, fragments, nReq, eventVars, coordVars, subVars,
                   slotVars, sender, world, document>>

NextBfs ==
    \/ \E i \in LocalFiles : BfsNew(i)
    \/ BfsNext
    \/ BfsEnd
    \/ BuildNext
    \/ PostBatch

\* the coordinator runs its handler to the end: no step of it waits on
\* another task but the builds, which return
SpecBfs == InitBfs /\ [][NextBfs]_vars /\ WF_vars(NextBfs)

(***************************************************************************)
(* SpecExtract: extract_note_fragments on one compiled document, given by  *)
(* its headings in document order.  A heading of level 1 is an h2 child of *)
(* body; its label is the uuid of a label note:<uuid>, or "none"; its     *)
(* title is its text without the prefix Section, which is also the first   *)
(* text node of its h2.                                                    *)
(***************************************************************************)
\* the headings of one document
MaxHeadings == 2

HeadingTitles == {"A", "B"}

InitExtract ==
    /\ state = InitState
    /\ receiver = <<>>
    /\ service = "running"
    /\ cancel = FALSE
    /\ fragments = {}
    /\ nReq = 0
    /\ occured = FALSE
    /\ trigger = "idle"
    /\ graph = EmptyGraph
    /\ is_source = {}
    /\ slots = {}
    /\ accessed = {}
    /\ coord = "absent"
    /\ walk = <<>>
    /\ nEvents = 0
    /\ initial = [walked |-> {}, failed |-> {}, ids |-> {}]
    /\ ledger = InitLedger
    /\ sub = [c \in Subscribers |-> InitSub]
    /\ history = [on |-> FALSE, log |-> <<>>]
    /\ sender = [capacity |-> BUFFER_SIZE]
    /\ file_slot = FileSlot_new
    /\ disk = "absent"
    /\ probe = InitProbe
    /\ world = NoWorld
    /\ bfs = NoBfs
    /\ \E headings \in SeqsUpTo([level : {1, 2}, title : HeadingTitles,
                                  label : Uuids \cup {"none"}], MaxHeadings) :
        document = [headings |-> headings, phase |-> "compiled", fragments |-> {}]

\* extract_note_fragments: the results it may return.  matches maps the uuid
\* of each labelled heading, of any level, to its text; sections (the map
\* fragments of the code) maps the text of each h2 child of body to its
\* fragment, here the place of the heading; a later entry of a HashMap replaces an earlier one of the same
\* key.  After the assertion on the two sizes each uuid takes the fragment of
\* its title out of the map, in the order of the HashMap, which is any order
extract_note_fragments(headings) ==
    LET Latest(S) == CHOOSE k \in S : \A l \in S : l <= k
        noted == {k \in 1..Len(headings) : headings[k].label \in Uuids}
        matches == [u \in {headings[k].label : k \in noted} |->
                        headings[Latest({k \in noted : headings[k].label = u})].title]
        tops == {k \in 1..Len(headings) : headings[k].level = 1}
        sections == [t \in {headings[k].title : k \in tops} |->
                        Latest({k \in tops : headings[k].title = t})]
        Of(t) == {u \in DOMAIN matches : matches[u] = t}
        joined == {t \in DOMAIN sections : Of(t) # {}}
    IN  IF Cardinality(DOMAIN matches) # Cardinality(DOMAIN sections)
        THEN {[panicked |-> TRUE, notes |-> {}]}
        ELSE {[panicked |-> FALSE,
               notes |-> {<<t, f[t], sections[t]>> : t \in joined}] :
                f \in {g \in [joined -> Uuids] : \A t \in joined : g[t] \in Of(t)}}

\* build, the call of extract_note_fragments on the compiled document
Extract ==
    /\ document.phase = "compiled"
    /\ \E r \in extract_note_fragments(document.headings) :
        document' = [document EXCEPT
                        !.phase = IF r.panicked THEN "panicked" ELSE "extracted",
                        !.fragments = r.notes]
    /\ UNCHANGED <<svcVars, cancel, fragments, nReq, eventVars, coordVars, subVars,
                   slotVars, sender, world, bfs>>

SpecExtract == InitExtract /\ [][Extract]_vars

(***************************************************************************)
(* Properties of the service on its own (SpecService).                     *)
(***************************************************************************)
\* the step of the service that handles a request of the given type
Handles(type) ==
    /\ service \in {"running", "draining"}
    /\ receiver # <<>>
    /\ Head(receiver).type = type
    /\ receiver' = Tail(receiver)

\* the note ids whose owner entry names file f
OwnedBy(s, f) == {u \in DOMAIN s.metadata : s.metadata[u].file_id = f}

\* C6: each note id has exactly one owner: no uuid is in the id lists of two
\* files, nor twice in the list of one file
C6_SingleOwner ==
    \A f1, f2 \in DOMAIN state.file_ids :
        \A k1 \in 1..Len(state.file_ids[f1]), k2 \in 1..Len(state.file_ids[f2]) :
            (f1 # f2 \/ k1 # k2) => state.file_ids[f1][k1] # state.file_ids[f2][k2]

\* C8: once remove_notes(f) is handled no note owned by f remains: no title
\* and owner entry names f
C8_RemoveLeavesNothing ==
    [][Handles("RemoveNotes") => OwnedBy(state', Head(receiver).file_id) = {}]_vars

\* the entries of a batch that carry a successful compile
OkEntries(outputs) == {k \in 1..Len(outputs) : outputs[k].result.ok}

\* C9: an Ok entry for f in update_notes removes every id that was in the id
\* list of f and is absent from the new output: its title and owner entry and
\* its node in the link graph are gone
C9_UpdateDropsMissing ==
    [][(Handles("UpdateNotes") /\ ~state'.panicked) =>
        \A k \in OkEntries(Head(receiver).outputs) :
            LET e == Head(receiver).outputs[k]
            IN  \A u \in Range(state.file_ids[e.file_id]) \ Ids(e.result.output) :
                    /\ u \notin DOMAIN state'.metadata
                    /\ ~contains_node(state'.links, u)]_vars

\* a batch without its entries of failed compiles
RECURSIVE WithoutErr(_)
WithoutErr(outputs) ==
    IF outputs = <<>> THEN <<>>
    ELSE (IF Head(outputs).result.ok THEN <<Head(outputs)>> ELSE <<>>)
         \o WithoutErr(Tail(outputs))

\* the files of the entries of failed compiles
ErrFiles(outputs) ==
    {outputs[k].file_id : k \in {j \in 1..Len(outputs) : ~outputs[j].result.ok}}

\* C10: create_notes(f, Err) changes errors[f] and nothing else; the Err
\* entries of an update_notes batch change nothing but their errors[f]: link
\* graph, titles, owners and id lists are those of the batch without them,
\* and no other slot of errors differs
C10_ErrFrame ==
    [][/\ (Handles("CreateNotes") /\ ~Head(receiver).result.ok) =>
            /\ state'.links = state.links
            /\ state'.metadata = state.metadata
            /\ state'.file_ids = state.file_ids
            /\ state'.errors = Insert(state.errors, Head(receiver).file_id, "err")
       /\ Handles("UpdateNotes") =>
            LET outputs == Head(receiver).outputs
                t == update_notes(state, WithoutErr(outputs))
            IN  t.panicked \/
                  /\ state'.links = t.links
                  /\ state'.metadata = t.metadata
                  /\ state'.file_ids = t.file_ids
                  /\ \A f \in DOMAIN t.errors \ ErrFiles(outputs) :
                        f \in DOMAIN state'.errors /\ state'.errors[f] = t.errors[f]
                  /\ DOMAIN state'.errors = DOMAIN t.errors \cup ErrFiles(outputs)]_vars

\* a failed compile was recorded for a file whose notes are still in place
C10_Witness ==
    \E f \in DOMAIN state.errors :
        /\ state.errors[f] = "err"
        /\ f \in DOMAIN state.file_ids
        /\ state.file_ids[f] # <<>>
        /\ OwnedBy(state, f) # {}

(***************************************************************************)
(* Properties of the coordinator with the service (Spec).                  *)
(***************************************************************************)
\* every posted request is applied and nothing was cancelled
Quiescent ==
    /\ receiver = <<>>
    /\ ~cancel
    /\ service = "running"
    /\ coord \in {"start", "watching"}

\* C1: in every state reached by handle_create, handle_modify and
\* handle_remove with their posted requests applied, the fragment file
\* build/<id>.html exists if and only if id is a node of the note link graph
\* (the node of a dangling link target, which has no note, is not counted)
C1_FragmentIffNode ==
    Quiescent =>
        \A u \in Uuids :
            /\ u \in fragments => contains_node(state.links, u)
            /\ (contains_node(state.links, u) /\ u \in DOMAIN state.metadata)
                  => u \in fragments

\* C7: with the queue drained, every uuid with owner f has f in the set of
\* source roots of the coordinator and is in the id list of f
C7_OwnerIsSourceRoot ==
    Quiescent =>
        \A u \in DOMAIN state.metadata :
            LET f == state.metadata[u].file_id
            IN  /\ f \in is_source
                /\ f \in DOMAIN state.file_ids
                /\ u \in Range(state.file_ids[f])

\* the step that fires the readiness event
Fires == ~occured /\ occured'

RECURSIVE Replay(_)
Replay(n) ==
    IF n = 0 THEN InitState ELSE handle(Replay(n - 1), history.log[n].message)

\* the deltas broadcast by the mutations after the first n, in order
RECURSIVE BroadcastsAfter(_)
BroadcastsAfter(n) ==
    IF n >= Len(history.log) THEN <<>>
    ELSE history.log[n + 1].broadcast \o BroadcastsAfter(n + 1)

\* the connections that were handed a snapshot and a receiver
Served(c) ==
    \/ sub[c].pc \in {"initialize", "loop"}
    \/ sub[c].pc = "closed" /\ \E k \in 1..Len(sub[c].socket) :
                                  sub[c].socket[k].tag = "initialize"

\* the deltas the connection sent on after its Initialize
RECURSIVE Deltas(_)
Deltas(socket) ==
    IF socket = <<>> THEN <<>>
    ELSE (IF Head(socket).tag \in {"update", "remove"} THEN <<Head(socket)>> ELSE <<>>)
         \o Deltas(Tail(socket))

Checked(c) ==
    sub[c].pc \in {"wait_load", "wait_notified", "suspended", "subscribe",
                   "subscribing", "initialize", "loop"}

SentBuilding(c) == \E k \in 1..Len(sub[c].socket) : sub[c].socket[k] = Building

\* the messages on the socket are a prefix of [Building] Initialize
\* (Update|Remove)*
Shape(socket) ==
    \A k \in 1..Len(socket) :
        /\ socket[k].tag = "building" => k = 1
        /\ socket[k].tag = "initialize" =>
             \/ k = 1
             \/ k = 2 /\ socket[1].tag = "building"
        /\ socket[k].tag \in {"update", "remove"} =>
             \E j \in 1..(k - 1) : socket[j].tag = "initialize"

C4_NoLostWakeup ==
    \A c \in Subscribers :
        ~(sub[c].pc = "suspended" /\ ~sub[c].woken /\ occured /\ trigger = "idle")

(***************************************************************************)
(* Properties of what the coordinator posts and of its FileGraph (Spec).   *)
(***************************************************************************)
\* the step posts a request, which is then the last of the channel
Appended == Len(receiver') = Len(receiver) + 1
Last == receiver'[Len(receiver')]

\* the files of the entries of a batch
Files(outputs) == {outputs[k].file_id : k \in 1..Len(outputs)}

\* the files for which the request carries the result of a successful build
OkFiles(m) ==
    IF m.type = "CreateNotes" THEN (IF m.result.ok THEN {m.file_id} ELSE {})
    ELSE IF m.type = "UpdateNotes"
        THEN {m.outputs[k].file_id : k \in OkEntries(m.outputs)}
    ELSE {}

\* a source root: a file of the source-root set of the coordinator or, the
\* set aside, a file with a create_notes posted and no remove_notes since
SourceRoot(f) == f \in is_source \/ f \in ledger.live

\* the step is the handling of a Modify event of file i
ModifyOf(i) ==
    /\ coord = "watching"
    /\ nEvents < MaxEvents
    /\ contains_node(graph, i) \/ i \in NoteFiles
    /\ handle_modify(i)
    /\ nEvents' = nEvents + 1

\* the files the Bfs from i reaches, i included
Reach(g, i) == Range(CHOOSE order \in Bfs(g, i) : TRUE)

\* the files whose latest successful build depends on u, u included
RECURSIVE Dependers(_)
Dependers(D) ==
    LET more == {v \in DOMAIN ledger.reads : ledger.reads[v] \cap D # {}} \ D
    IN  IF more = {} THEN D ELSE Dependers(D \cup more)

\* C12: the requests the coordinator posts about a file are a prefix of
\* (create_notes update_notes* remove_notes)*: an update_notes entry or a
\* remove_notes only after a create_notes with no remove_notes since, and no
\* second create_notes without a remove_notes between
C12_PostOrder ==
    [][Appended =>
        /\ Last.type = "CreateNotes" => Last.file_id \notin ledger.live
        /\ Last.type = "RemoveNotes" => Last.file_id \in ledger.live
        /\ Last.type = "UpdateNotes" => Files(Last.outputs) \subseteq ledger.live]_vars

\* C13: handle_modify(i) posts one update_notes whose batch has exactly one
\* entry for each source root reachable from i in the FileGraph, none for a
\* file that is no source root, and no file twice
C13_ModifyBatch ==
    [][\A i \in LocalFiles :
        (ModifyOf(i) /\ coord' = "watching" /\ service = "running" /\ ~cancel') =>
            /\ Appended
            /\ Last.type = "UpdateNotes"
            /\ Files(Last.outputs) = {j \in Reach(graph, i) : SourceRoot(j)}
            /\ Len(Last.outputs) = Cardinality(Files(Last.outputs))]_vars

\* C14: when the latest successful compile of source root v read the local
\* file u, the Modify event of u recompiles v (v is in the batch posted), and
\* the batch holds no source root that does not depend on u
C14_ModifyRecompilesReaders ==
    [][\A u \in LocalFiles :
        (ModifyOf(u) /\ Appended /\ ~cancel') =>
            /\ \A v \in DOMAIN ledger.reads :
                 (SourceRoot(v) /\ u \in ledger.reads[v]) => v \in Files(Last.outputs)
            /\ \A f \in Files(Last.outputs) :
                 SourceRoot(f) => f \in Dependers({u})]_vars

\* C15: once the service applied remove_notes(f) with id list L, no fragment
\* file build/<id>.html of an id of L exists and the snapshot holds none of
\* them
C15_RemoveUnlinks ==
    [][(Handles("RemoveNotes") /\ Head(receiver).file_id \in DOMAIN state.file_ids) =>
        \A u \in Range(state.file_ids[Head(receiver).file_id]) :
            /\ u \notin fragments'
            /\ u \notin DOMAIN SnapshotOf(state').titles
            /\ u \notin DOMAIN SnapshotOf(state').outgoing_links]_vars

\* C16: get_note_content(u) returns absent, not an I/O error, for a uuid
\* known only as the target of a link (no title and no fragment file) and
\* for a uuid unknown altogether
C16_DanglingAbsent ==
    \A u \in Uuids :
        (u \notin DOMAIN state.metadata /\ u \notin fragments) =>
            get_note_content(state, fragments, u) = "none"

\* C17: when a fragment write fails in handle_create(i) or while
\* handle_modify builds j, the cancellation token is cancelled and no Ok
\* result for that file is posted
C17_WriteErrorCancels ==
    [][ledger'.failed # {} =>
        /\ cancel'
        /\ Appended => OkFiles(Last) \cap ledger'.failed = {}]_vars

\* a fragment write failed in handle_modify, which posted its batch
C17_Witness ==
    /\ ledger.failed # {}
    /\ cancel
    /\ nEvents > 0
    /\ \E k \in 1..Len(receiver) : receiver[k].type = "UpdateNotes"

\* C19: every FileGraph edge u -> v has a target v that is a source root
C19_EdgeTargetsSourceRoot ==
    \A e \in graph.edges : SourceRoot(e[2])

\* C20: no FileGraph node has a package qualifier
C20_NoPackageNode ==
    \A n \in graph.nodes : package(n) = "none"

\* C11: for a file f absent from the service state S, create_notes(f, Ok)
\* followed by remove_notes(f) yields S again in titles, owners, id lists and
\* link-graph edges, and keeps the nodes of S (a link target unknown in S may
\* stay behind as a dangling node), for every list of notes
C11_CreateRemoveRoundTrip ==
    \A f \in NoteFiles :
        (f \notin DOMAIN state.file_ids /\ OwnedBy(state, f) = {}) =>
            \A q \in BuildLists :
                LET t == remove_notes(create_notes(state, f, OkResult(q)), f)
                IN  /\ t.metadata = state.metadata
                    /\ t.file_ids = state.file_ids
                    /\ t.links.edges = state.links.edges
                    /\ state.links.nodes \subseteq t.links.nodes

\* C18: once the token is cancelled, every request accepted into the queue
\* of the service is handled before the service loop exits
C18_DrainedBeforeExit ==
    (cancel /\ service \in {"stopped", "panicked"}) => receiver = <<>>

(***************************************************************************)
(* Properties of the link graph of the service (SpecService).              *)
(***************************************************************************)
\* C21: in every state reached by create_notes, update_notes and
\* remove_notes, every edge u -> v of the link graph has a source u that is
\* a known note, with a title and an owner; the target v need not be one
C21_EdgeSourceKnown ==
    \A e \in state.links.edges : e[1] \in DOMAIN state.metadata

\* a note was removed since, and an edge leads to a uuid that is no note
C21_Witness ==
    /\ \E e \in state.links.edges : e[2] \notin DOMAIN state.metadata
    /\ \E f \in NoteFiles : f \notin DOMAIN state.file_ids /\ f \in DOMAIN state.errors
    /\ nReq = MaxReq

(***************************************************************************)
(* Properties of the cells of a file slot (SpecSlot).                      *)
(***************************************************************************)
\* C22: between two resets of the slot a cell reads the disk at most once,
\* and every access returns the result of the first access since the reset,
\* an error included, whatever the file on disk holds by then
C22_OneReadPerBuild ==
    \A k \in Kinds :
        /\ probe[k].loads <= 1
        /\ probe[k].first # <<>> => probe[k].last = probe[k].first

\* a cell was accessed a second time after the file had changed, and a cell
\* returned an error on each of its accesses
C22_Witness ==
    /\ \E k \in Kinds : probe[k].stale /\ probe[k].accesses = MaxCount
    /\ \E k \in Kinds : probe[k].accesses = MaxCount /\ ~probe[k].last[1].ok

\* the step is the first access of cell k after a reset that followed an
\* earlier access
Reaccess(k) ==
    /\ Access(k)
    /\ ~file_slot[k].accessed
    /\ file_slot[k].data # <<>>

\* what reset and the access after it have in common in C23 as stated and as
\* restated: reset changes the accessed flag only, the access reads the
\* file, stores the new fingerprint and returns the cached value without
\* decoding exactly when the new fingerprint is the stored one
ResetThenRead ==
    /\ ResetSlot =>
          \A k \in Kinds : /\ file_slot'[k].data = file_slot[k].data
                           /\ file_slot'[k].fingerprint = file_slot[k].fingerprint
                           /\ ~file_slot'[k].accessed
    /\ \A k \in Kinds :
          Reaccess(k) =>
              /\ probe'[k].loads = 1
              /\ file_slot'[k].fingerprint = hash128(read(disk))
              /\ file_slot'[k].data = probe'[k].last
              /\ hash128(read(disk)) = file_slot[k].fingerprint =>
                    /\ ~probe'[k].decoded
                    /\ probe'[k].last = file_slot[k].data

\* C23 as stated: for access, reset, access on one cell, reset changes only
\* the accessed flag, the second access reads the file again and returns the
\* cached value without decoding if and only if the new fingerprint equals
\* the stored one; otherwise it decodes and stores the new value and
\* fingerprint
C23_ReaccessDecodes ==
    [][/\ ResetThenRead
       /\ \A k \in Kinds :
             (Reaccess(k) /\ hash128(read(disk)) # file_slot[k].fingerprint) =>
                 probe'[k].decoded]_vars

\* C23, restated: as above, but with a new fingerprint the second access
\* decodes only what a successful read yielded; when the read failed it
\* stores and returns the read error with the new fingerprint, nothing
\* decoded
C23_ReaccessDecodesRead ==
    [][/\ ResetThenRead
       /\ \A k \in Kinds :
             (Reaccess(k) /\ hash128(read(disk)) # file_slot[k].fingerprint) =>
                 /\ probe'[k].decoded <=> read(disk).ok
                 /\ ~read(disk).ok => probe'[k].last = <<read(disk)>>]_vars

\* after access, reset, access: a cell that returned its cached value, and
\* a cell that read a changed file and holds a new value
C23_Witness ==
    /\ probe["source"].again /\ probe["source"].accesses = 1
    /\ ~probe["source"].decoded /\ probe["source"].last[1].ok
    /\ probe["file"].again /\ probe["file"].accesses = 1
    /\ probe["file"].decoded

(***************************************************************************)
(* Properties of a lagging websocket connection (SpecLag).                 *)
(***************************************************************************)
\* the connection was handed every delta broadcast since its snapshot
Delivered(c) == Deltas(sub[c].socket) \o sub[c].rx = BroadcastsAfter(sub[c].at)

C25_UpdateIdempotent ==
    [][(Handles("UpdateNotes") /\ ~state'.panicked) =>
        LET t == update_notes(state', Head(receiver).outputs)
        IN  /\ ~t.panicked
            /\ t.metadata = state'.metadata
            /\ t.file_ids = state'.file_ids
            /\ t.links = state'.links
            /\ SnapshotOf(t) = SnapshotOf(state')]_vars

\* update_notes gave a file a note without links that was not there before,
\* beside a note that has a link
C25_Witness ==
    /\ \E u \in DOMAIN state.metadata :
          /\ ~contains_node(state.links, u)
          /\ u \in Range(state.file_ids[state.metadata[u].file_id])
    /\ state.links.edges # {}

(***************************************************************************)
(* Properties of the handlers of the coordinator (Spec).                   *)
(***************************************************************************)
\* the step is a handle_modify that posted its batch
ModifyPosted ==
    /\ nEvents' = nEvents + 1
    /\ Appended
    /\ Last.type = "UpdateNotes"

\* C26: after handle_modify compiled j with success and captured the
\* dependency set D, the predecessors of j in the FileGraph are exactly the
\* project-local files of D, and the edges that do not lead to j are those
\* of before
C26_ModifyReplacesIncoming ==
    [][ModifyPosted =>
        /\ \A j \in OkFiles(Last) :
              incoming(graph', j) = {k \in ledger'.reads[j] : package(k) = "none"}
        /\ {e \in graph'.edges : e[2] \notin OkFiles(Last)} =
              {e \in graph.edges : e[2] \notin OkFiles(Last)}]_vars

\* b.typ, which a.typ had read, was modified and compiled reading tmpl: the
\* edge from a.typ is gone and the edge from tmpl is there
C26_Witness ==
    /\ nEvents > 0
    /\ "a.typ" \in DOMAIN ledger.reads /\ ledger.reads["a.typ"] = {"b.typ"}
    /\ "b.typ" \in DOMAIN ledger.reads /\ ledger.reads["b.typ"] = {"tmpl"}
    /\ incoming(graph, "b.typ") = {"tmpl"}
    /\ \E k \in 1..Len(receiver) :
          receiver[k].type = "UpdateNotes" /\ "b.typ" \in OkFiles(receiver[k])

\* C27: a handle_create(i) whose compile and fragment writes succeed posts
\* one create_notes(i, Ok) and leaves i a node of the FileGraph and a member
\* of the source-root set; one whose compile fails posts one
\* create_notes(i, Err) and leaves FileGraph and source-root set as they were
C27_CreateMarksSourceRoot ==
    [][(Appended /\ Last.type = "CreateNotes") =>
        IF Last.result.ok
        THEN /\ contains_node(graph', Last.file_id)
             /\ Last.file_id \in is_source'
        ELSE /\ graph' = graph
             /\ is_source' = is_source]_vars

\* C28: after handle_remove(i), which posts one remove_notes(i), i is no
\* FileGraph node, no edge is incident to i and i is not in the source-root
\* set; every other node, every edge between other nodes and every other
\* member of the source-root set is as before
C28_RemoveFrame ==
    [][(Appended /\ Last.type = "RemoveNotes") =>
        LET i == Last.file_id
        IN  /\ ~contains_node(graph', i)
            /\ \A e \in graph'.edges : e[1] # i /\ e[2] # i
            /\ i \notin is_source'
            /\ graph'.nodes = graph.nodes \ {i}
            /\ graph'.edges = {e \in graph.edges : e[1] # i /\ e[2] # i}
            /\ is_source' = is_source \ {i}
            /\ Len(receiver') = Len(receiver) + 1]_vars

\* b.typ, which a.typ had read, was removed: it is no node any more, and
\* a.typ still is one
C28_Witness ==
    /\ nEvents > 0
    /\ \E k \in 1..Len(receiver) : receiver[k] = RemoveNotes("b.typ")
    /\ "a.typ" \in DOMAIN ledger.reads /\ ledger.reads["a.typ"] = {"b.typ"}
    /\ ~contains_node(graph, "b.typ")
    /\ contains_node(graph, "a.typ")

(***************************************************************************)
(* Properties of update_note (SpecService).                                *)
(***************************************************************************)
\* what update_note does to note data of file f, from state s to state t,
\* apart from the edges that lead to the note
NoteRewritten(s, f, data, t) ==
    /\ neighbors(t.links, data.id) = Range(data.links)
    /\ t.metadata[data.id] = [title |-> data.title, file_id |-> f]
    /\ t.file_ids[f] = Append(s.file_ids[f], data.id)
    /\ {e \in t.links.edges : e[1] # data.id} = {e \in s.links.edges : e[1] # data.id}

\* the service handles an update_notes whose batch has one successful
\* compile, of file f with the given output
UpdatesFile(f, output) ==
    /\ Handles("UpdateNotes")
    /\ ~state'.panicked
    /\ WithoutErr(Head(receiver).outputs) = <<Entry(f, OkResult(output))>>

\* the state before the n-th note of the output is applied, the first being
\* applied to the state with the id list of f cleared
BeforeNote(f, output, n) ==
    UpdateEach([state EXCEPT !.file_ids = [@ EXCEPT ![f] = <<>>]], f,
               SubSeq(output, 1, n - 1))

\* C29 as stated: after update_notes applies a note {id i, title t, links
\* L} of file f, the successors of i are exactly the set of L, title and
\* owner of i are t and f, i is appended to ids[f], and the incoming edges
\* of i and the outgoing edges of every other note are unchanged
C29_UpdateNoteFrame ==
    [][\A f \in NoteFiles, output \in NoteLists :
        UpdatesFile(f, output) =>
            /\ \A n \in 1..Len(output) :
                  LET s == BeforeNote(f, output, n)
                      t == BeforeNote(f, output, n + 1)
                      i == output[n].id
                  IN  /\ NoteRewritten(s, f, output[n], t)
                      /\ {e \in t.links.edges : e[2] = i} =
                            {e \in s.links.edges : e[2] = i}
            /\ state'.links = BeforeNote(f, output, Len(output) + 1).links
            /\ state'.metadata = BeforeNote(f, output, Len(output) + 1).metadata
            /\ state'.file_ids = BeforeNote(f, output, Len(output) + 1).file_ids]_vars

\* C29, restated: as above, the incoming edges of i being unchanged as far
\* as they come from other notes: the edge i -> i of a note that links to
\* itself is set with its outgoing edges
C29_UpdateNoteFrameOthers ==
    [][\A f \in NoteFiles, output \in NoteLists :
        UpdatesFile(f, output) =>
            /\ \A n \in 1..Len(output) :
                  LET s == BeforeNote(f, output, n)
                      t == BeforeNote(f, output, n + 1)
                      i == output[n].id
                  IN  /\ NoteRewritten(s, f, output[n], t)
                      /\ {e \in t.links.edges : e[2] = i /\ e[1] # i} =
                            {e \in s.links.edges : e[2] = i /\ e[1] # i}
            /\ state'.links = BeforeNote(f, output, Len(output) + 1).links
            /\ state'.metadata = BeforeNote(f, output, Len(output) + 1).metadata
            /\ state'.file_ids = BeforeNote(f, output, Len(output) + 1).file_ids]_vars

\* update_notes applied two notes of a file: one that links to itself, and
\* one without links that was no note before
C29_Witness ==
    \E f \in DOMAIN state.file_ids, w, u \in Uuids :
        /\ state.file_ids[f] = <<w, u>>
        /\ w # u
        /\ u \in DOMAIN state.metadata /\ ~contains_node(state.links, u)
        /\ w \in DOMAIN state.metadata /\ state.metadata[w].file_id = f
        /\ neighbors(state.links, w) = {w}

(***************************************************************************)
(* Properties of the broadcast of create_notes (SpecSub).                  *)
(***************************************************************************)
\* the deltas broadcast by the mutation the service has just handled
Broadcast == history'.log[Len(history'.log)].broadcast

RemoveEvent == nEvents' = nEvents + 1 /\ ledger'.event[1] = "remove"

\* the step of the service that handles remove_notes(f) for a file f that
\* has no id list
RemoveUnlisted ==
    /\ Handles("RemoveNotes")
    /\ Head(receiver).file_id \notin DOMAIN state.file_ids

\* remove_notes left titles, owners, ids and the link graph as they were and
\* the service goes on
ServiceUntouched ==
    /\ state'.links = state.links
    /\ state'.metadata = state.metadata
    /\ state'.file_ids = state.file_ids
    /\ ~state'.panicked
    /\ service' = service

C32_DependenciesExact ==
    [][(world.phase = "compiling" /\ world'.phase = "done")
        => /\ world'.taken = world.passed \ {world.main_id}
           /\ world.main_id \notin world'.taken
           /\ world'.taken \cap (world.earlier \ world.passed) = {}]_vars

\* the second compile read its main file and one other file, after a first
\* compile that read a package file
C32_Witness ==
    /\ world.phase = "done"
    /\ world.count = 2
    /\ world.main_id = "a.typ"
    /\ world.passed = {"a.typ", "tmpl"}
    /\ world.taken = {"tmpl"}
    /\ "pkg" \in world.earlier

(***************************************************************************)
(* The reset of the file slots in handle_modify (Spec).                    *)
(***************************************************************************)
\* the files the builds of the posted batch read: the built files and the
\* dependencies of those that compiled
BatchReads ==
    Files(Last.outputs) \cup ledger'.failed
        \cup UNION {ledger'.reads[j] : j \in OkFiles(Last)}

\* C33: in handle_modify(i) the accessed flags of the slot of every file
\* reachable from i, i included, are cleared before the first compile of the
\* batch: after the batch the flag of such a file is set exactly when the
\* batch read it, and no compile of the batch was served such a file from a
\* flag set before the Modify event
C33_ResetBeforeBatch ==
    [][ModifyPosted =>
        \A k \in Reach(graph, ledger'.event[2]) :
            /\ k \in accessed' <=> k \in BatchReads
            /\ k \notin ledger'.cached]_vars

\* a.typ, built by the walk with the file tmpl it read, was modified and
\* its rebuild read tmpl again, both from the disk
C33_Witness ==
    /\ ledger.event = <<"modify", "a.typ">>
    /\ <<"a.typ", "tmpl">> \in graph.edges
    /\ "a.typ" \in DOMAIN ledger.reads
    /\ ledger.reads["a.typ"] = {"tmpl"}
    /\ ledger.cached = {}
    /\ {"a.typ", "tmpl"} \subseteq accessed
    /\ receiver # <<>>
    /\ receiver[Len(receiver)].type = "UpdateNotes"

(***************************************************************************)
(* The termination of handle_modify (SpecBfs).                             *)
(***************************************************************************)
\* the traversal yields no file twice and only files reachable from the
\* start, the batch is the start and the yielded source roots, and the
\* finished traversal is one of the orders of Bfs
EachOnce ==
    /\ \A k1, k2 \in 1..Len(bfs.yielded) :
            k1 # k2 => bfs.yielded[k1] # bfs.yielded[k2]
    /\ bfs.phase # "none" => Range(bfs.yielded) \subseteq Reach(graph, bfs.start)
    /\ Len(bfs.dependents) <= Len(bfs.yielded) + 1
    /\ Len(bfs.built) <= Len(bfs.dependents)
    /\ bfs.phase \in {"building", "done"}
        => /\ bfs.yielded \in Bfs(graph, bfs.start)
           /\ bfs.dependents \in Dependents(bfs.start)

\* C34: handle_modify(i) terminates on every finite FileGraph, those with
\* cycles and self-loops included: the traversal visits each reachable file
\* at most once and the batch builds finitely many sources
C34_ModifyTerminates ==
    /\ []EachOnce
    /\ (bfs.phase = "walking") ~> (bfs.phase \in {"done", "panicked"})

\* handle_modify(a.typ) returned on a graph where a.typ has a self-loop and
\* is on a cycle with b.typ, both source roots
C34_Witness ==
    /\ bfs.phase = "done"
    /\ bfs.start = "a.typ"
    /\ {<<"a.typ", "a.typ">>, <<"a.typ", "b.typ">>, <<"b.typ", "a.typ">>}
            \subseteq graph.edges
    /\ bfs.yielded = <<"a.typ", "b.typ">>
    /\ bfs.built = <<"a.typ", "a.typ", "b.typ">>

(***************************************************************************)
(* The fragments of a document (SpecExtract).                              *)
(***************************************************************************)
\* every heading is a top-level heading and no two have the same title
DistinctTitles(headings) ==
    \A k1, k2 \in 1..Len(headings) :
        /\ headings[k1].level = 1
        /\ k1 # k2 => headings[k1].title # headings[k2].title

\* C35: for a compiled document whose top-level headings have pairwise
\* distinct titles, extract_note_fragments returns exactly one (title, uuid,
\* fragment) per heading whose label parses as note:<uuid> and nothing for
\* the other headings, and it returns without aborting when some top-level
\* headings carry no note label
C35_OnePerLabelledHeading ==
    (document.phase \in {"extracted", "panicked"}
        /\ DistinctTitles(document.headings))
    => /\ document.phase = "extracted"
       /\ document.fragments =
            {<<document.headings[k].title, document.headings[k].label, k>> :
                k \in {l \in 1..Len(document.headings) :
                            document.headings[l].label \in Uuids}}

(***************************************************************************)
(* The links of the notes that stay (SpecService).                         *)
(***************************************************************************)
\* C36: the outgoing edges of every known note u are the links that the
\* latest successful build of the source of u reported; a request that does
\* not carry u leaves them as they are, and in particular remove_notes of
\* the source of a note v does not delete the edge u -> v of a note u that
\* stays
C36_RemoveKeepsLinksOfOthers ==
    [][Handles("RemoveNotes") =>
        \A u \in DOMAIN state'.metadata :
            neighbors(state'.links, u) = neighbors(state.links, u)]_vars

(***************************************************************************)
(* update_notes for a file without an id list (SpecService).               *)
(***************************************************************************)
\* the ids of the notes of the last Ok entry of file f in the batch
LatestIds(outputs, f) ==
    LET k == CHOOSE k \in OkEntries(outputs) :
                /\ outputs[k].file_id = f
                /\ \A l \in OkEntries(outputs) : outputs[l].file_id = f => l <= k
    IN  [n \in 1..Len(outputs[k].result.output) |-> outputs[k].result.output[n].id]

\* C37: update_notes never aborts the service: an Ok entry for a file f, with
\* or without an id list, leaves ids[f] equal to the ids of the new result
C37_UpdateNeverAborts ==
    [][Handles("UpdateNotes") =>
        /\ ~state'.panicked
        /\ \A f \in OkFiles(Head(receiver)) :
            /\ f \in DOMAIN state'.file_ids
            /\ state'.file_ids[f] = LatestIds(Head(receiver).outputs, f)]_vars

(***************************************************************************)
(* A Modify event of a file without a slot (Spec).                         *)
(***************************************************************************)
\* C38: handle_modify(i) returns and posts its update batch for every i that
\* passes the dispatch of the Modify event, a new source root that is no
\* FileGraph node and has no file slot yet included
C38_ModifyCompletes ==
    [][(/\ nEvents' = nEvents + 1
        /\ ledger'.event[1] = "modify"
        /\ contains_node(graph, ledger'.event[2]) \/ ledger'.event[2] \in NoteFiles)
        => /\ coord' = "watching"
           /\ service = "running" => (Appended /\ Last.type = "UpdateNotes")]_vars

(***************************************************************************)
(* get_note_metadata (SpecService).                                        *)
(***************************************************************************)
\* C39: while the service runs, get_note_metadata(id) returns a value for
\* every uuid and does not abort: the title, links and backlinks of a known
\* note, and None for every uuid without a title, a uuid that is a node of
\* the link graph only because some note links to it included
C39_MetadataTotal ==
    ~state.panicked =>
        \A id \in Uuids :
            IF id \in DOMAIN state.metadata
            THEN get_note_metadata(state, id) =
                    [tag |-> "some", title |-> state.metadata[id].title,
                     links |-> neighbors(state.links, id),
                     backlinks |-> incoming(state.links, id)]
            ELSE get_note_metadata(state, id) = [tag |-> "none"]

(***************************************************************************)
(* The dependents of a removed file (Spec).                                *)
(***************************************************************************)
\* a Modify event of file d is dispatched to handle_modify and every batch it
\* may build holds v (a Create event of a file that is no source root is
\* never dispatched)
Recompiles(d, v) ==
    /\ contains_node(graph, d) \/ d \in NoteFiles
    /\ \A dependents \in Dependents(d) : v \in Range(dependents)

\* C40: the dependency relation survives the Remove of a dependency file:
\* when the latest successful compile of a source root v read the file d,
\* which is no source root, then in the state that handle_remove(d) leaves a
\* later event of d still recompiles v
C40_DependencySurvivesRemove ==
    [][\A d \in LocalFiles \ NoteFiles :
        (RemoveEvent /\ ledger'.event[2] = d)
            => \A v \in DOMAIN ledger.reads :
                (SourceRoot(v) /\ d \in ledger.reads[v]) => Recompiles(d, v)']_vars

====
